---- MODULE Spec2Model ----
(***************************************************************************)
(* HSA-paperless: the metadata store (documents.json in the user's Drive   *)
(* appDataFolder), its per-key in-process write lock, the optimistic       *)
(* If-Match write with retry, and the upload handler built on top of it.   *)
(*                                                                         *)
(* Every `await` of the TypeScript source is a step boundary: an action    *)
(* is one remote request together with the synchronous code that follows   *)
(* its response up to the next `await`.                                    *)
(***************************************************************************)
EXTENDS Integers, Sequences, FiniteSets, TLC

(***************************************************************************)
(* Program constants                                                       *)
(***************************************************************************)
WRITE_RETRY_LIMIT == 4

MAX_FILE_SIZE == 10 * 1024 * 1024

DOCUMENTS_METADATA_NAME == "documents.json"

LEGACY_METADATA_NAME == "receipts.json"

ALLOWED_TYPES == {"image/jpeg", "image/png", "image/webp", "application/pdf"}

(***************************************************************************)
(* Bounds of the model                                                     *)
(***************************************************************************)
\* concurrent handler invocations in the general specification
NumCalls == 2

\* files in one upload batch
MaxFiles == 2

\* The call slots.  The retry specification needs one call and
\* WRITE_RETRY_LIMIT competitors, the general one NumCalls calls.
Calls == 1..(WRITE_RETRY_LIMIT + 1)

Procs == {"p1", "p2"}

\* Access tokens.  tA1 and tA2 are two access tokens of the same Google
\* account (for example the one before and the one after a token refresh).
\* tB1 is an access token of another account.
Tokens == {"tA1", "tA2", "tB1"}

TokenIdentity(t) == IF t = "tB1" THEN "B" ELSE "A"

(***************************************************************************)
(* Encodings.  TLC cannot compare values of different kinds, so every      *)
(* nullable value has a null of its own kind.                              *)
(***************************************************************************)
\* a string is a sequence of one-character strings; null and "" are both
\* falsy in the places the code tests a filename, and both are <<>>
NoName == <<>>

\* blob and record ids are tuples; the null id is the empty tuple
NoFile == <<>>

\* an etag is the blob's content version, a positive number; 0 is null
NoEtag == 0

\* an error object {message, code?, response: {status?}}; 0 is an absent
\* field, and NoErr is no error at all
NoErr == [message |-> "", code |-> 0, status |-> 0]

Err500 == [message |-> "http", code |-> 500, status |-> 500]

Err401 == [message |-> "http", code |-> 0, status |-> 401]

Err403 == [message |-> "http", code |-> 403, status |-> 403]

Conflict412 == [message |-> "http", code |-> 412, status |-> 412]

Conflict409 == [message |-> "http", code |-> 0, status |-> 409]

\* line 797: new Error("Exceeded write retries")
ErrExceeded == [message |-> "Exceeded write retries", code |-> 0, status |-> 0]

\* what the file store answers to a request it does not carry out, other
\* than for a failed precondition
OtherErrors == {Err500, Err401}

\* what the file store answers to an update whose If-Match does not match
PreconditionErrors == {Conflict412, Conflict409}

\* a catch that takes every HTTP error for a write conflict
isWriteConflictError_AnyStatus(error) ==
    LET status == IF error.code # 0 THEN error.code ELSE error.status
    IN  status >= 400

isWriteConflictError(error) ==
    LET status == IF error.code # 0 THEN error.code ELSE error.status
    IN  status = 409 \/ status = 412

\* a check that knows the status 401 only
isAuthError_Only401(error) == error.code = 401 \/ error.status = 401

isAuthError(error) ==
    \/ error.code = 401 \/ error.code = 403
    \/ error.status = 401 \/ error.status = 403

\* the catch of every route handler (documents/route.ts lines 147-153,
\* upload/route.ts lines 174-178): the error kind the caller is told
ErrorKind(error) == IF isAuthError(error) THEN "InvalidCredentials" ELSE "DriveError"

\* A raw etag as it arrives in a response: undefined, a string, or an array
\* whose first element is a string.  <<kind, v>>: v is the version the
\* string spells, 0 for the empty string.
RawEtags(v) == {<<"undefined", 0>>, <<"string", 0>>, <<"string", v>>, <<"array", v>>}

\* the `etag` member of a files.get body: absent, or a string
BodyEtags(v) == {<<"undefined", 0>>, <<"string", v>>}

extractEtag(value) ==
    IF value[1] = "string" /\ value[2] > 0 THEN value[2]
    ELSE IF value[1] = "array" /\ value[2] > 0 THEN value[2]
    ELSE NoEtag

(***************************************************************************)
(* Documents and the metadata file                                         *)
(***************************************************************************)
\* reimbursedDate: null
NoDate == <<>>

\* "2024-01-15"
Date0 == <<"2", "0", "2", "4", "-", "0", "1", "-", "1", "5">>

\* The record that is in documents.json when the model starts.
Doc0 == [id |-> <<"d", 0>>, fileId |-> <<"doc", 0, 0>>,
         filename |-> <<"b", ".", "j">>, hasFile |-> TRUE,
         reimbursed |-> TRUE, reimbursedDate |-> Date0]

\* no record: the null of `let removed: Document | null`
NoDoc == [id |-> <<>>, fileId |-> NoFile, filename |-> NoName, hasFile |-> FALSE,
          reimbursed |-> FALSE, reimbursedDate |-> NoDate]

EmptyFile == [version |-> 1, documents |-> <<>>]

\* JSON.stringify(data) of a DocumentsFile: the text of the blob.
Stringify(data) == [fmt |-> "documents", version |-> data.version, list |-> data.documents]

\* a parser that takes the content as it comes
parseDocumentsFile_NoFallback(raw) == [version |-> raw.version, documents |-> raw.list]

\* The text of a metadata blob: JSON with a `documents` array, JSON with a
\* (legacy) `receipts` array, JSON with neither, or text that is not JSON.
parseDocumentsFile(raw) ==
    IF raw.fmt = "unparsable" THEN EmptyFile
    ELSE [version   |-> IF raw.version > 0 THEN raw.version ELSE 1,
          documents |-> IF raw.fmt \in {"documents", "receipts"} THEN raw.list ELSE <<>>]

(***************************************************************************)
(* deduplicateFilename and the mutators the route handlers pass to         *)
(* readModifyWriteDocuments                                                *)
(***************************************************************************)
DigitChars == <<"0", "1", "2", "3", "4", "5", "6", "7", "8", "9">>

\* `${counter}`: the decimal spelling of a counter
RECURSIVE Digits(_)
Digits(n) ==
    IF n < 10 THEN <<DigitChars[n + 1]>>
    ELSE Digits(n \div 10) \o <<DigitChars[(n % 10) + 1]>>

\* name.lastIndexOf("."), 1-based; 0 when there is no dot (-1 in the code)
lastIndexOfDot(name) ==
    LET dots == {i \in 1..Len(name) : name[i] = "."}
    IN  IF dots = {} THEN 0 ELSE CHOOSE i \in dots : \A j \in dots : j <= i

RECURSIVE NextFreeCandidate(_, _, _, _)
NextFreeCandidate(base, ext, usedNames, counter) ==
    LET candidate == base \o <<"_">> \o Digits(counter) \o ext
    IN  IF candidate \notin usedNames THEN candidate
        ELSE NextFreeCandidate(base, ext, usedNames, counter + 1)

\* a deduplication that returns every name as it came
deduplicateFilename_NoSuffix(name, usedNames) == name

\* The name deduplicateFilename returns; the caller's set gains that name.
deduplicateFilename(name, usedNames) ==
    IF name \notin usedNames THEN name
    ELSE LET dot  == lastIndexOfDot(name)
             base == IF dot >= 1 THEN SubSeq(name, 1, dot - 1) ELSE name
             ext  == IF dot >= 1 THEN SubSeq(name, dot, Len(name)) ELSE <<>>
         IN  NextFreeCandidate(base, ext, usedNames, 1)

SeqRange(s) == {s[i] : i \in 1..Len(s)}

\* new Set(data.documents.map(doc => doc.filename).filter(Boolean))
UsedNames(documents) == {d.filename : d \in SeqRange(documents)} \ {NoName}

\* The loop of the upload mutator over createdEntries[k..]: each entry's
\* filename is overwritten IN the createdEntries object, then the entry is
\* pushed.  Returns the documents and the createdEntries after the loop.
RECURSIVE AppendLoop(_, _, _, _)
AppendLoop(documents, entries, usedNames, k) ==
    IF k > Len(entries) THEN [documents |-> documents, entries |-> entries]
    ELSE LET e     == entries[k]
             name  == IF e.filename # NoName
                      THEN deduplicateFilename(e.filename, usedNames)
                      ELSE e.filename
             e2    == [e EXCEPT !.filename = name]
         IN  AppendLoop(Append(documents, e2), [entries EXCEPT ![k] = e2],
                        IF e.filename # NoName THEN usedNames \cup {name} ELSE usedNames,
                        k + 1)

\* a mutator that appends the first entry of the batch only
AppendEntries_FirstOnly(documents, entries) ==
    AppendLoop(documents, SubSeq(entries, 1, 1), UsedNames(documents), 1)

\* upload/route.ts: the mutator of the batch append
AppendEntries(documents, entries) ==
    AppendLoop(documents, entries, UsedNames(documents), 1)

\* documents/route.ts POST: the record of a manual entry of call c (the
\* body of the requests the model sends names no reimbursement)
ManualEntry(c) == [id |-> <<"m", c>>, fileId |-> NoFile, filename |-> NoName, hasFile |-> FALSE,
                   reimbursed |-> FALSE, reimbursedDate |-> NoDate]

\* data.documents.findIndex(document => document.id === id); 0 for -1
findIndex(documents, id) ==
    LET hits == {i \in 1..Len(documents) : documents[i].id = id}
    IN  IF hits = {} THEN 0 ELSE CHOOSE i \in hits : \A j \in hits : i <= j

\* data.documents.splice(index, 1)
Splice(documents, index) ==
    SubSeq(documents, 1, index - 1) \o SubSeq(documents, index + 1, Len(documents))

\* upload/route.ts lines 113-119: the fields before runOcr has answered;
\* the confidence null is -1
NullConfidence == -1

NoGuess == [title |-> <<>>, date |-> <<>>, amount |-> 0, category |-> "",
            confidence |-> NullConfidence]

\* what runOcr does for a file: it returns fields it has read, it returns
\* the empty fields (no text was recognized), or it throws and the
\* assignment of line 121 does not happen
Extracted == [threw |-> FALSE,
              value |-> [title |-> <<"R", "x">>, date |-> Date0, amount |-> 1250,
                         category |-> "Pharmacy", confidence |-> 1]]

Unreadable == [threw |-> FALSE, value |-> NoGuess]

Threw == [threw |-> TRUE, value |-> NoGuess]

\* upload/route.ts line 111: now.toISOString().slice(0, 10), "2026-03-04"
Today == <<"2", "0", "2", "6", "-", "0", "3", "-", "0", "4">>

Untitled == <<"Untitled document">>

\* a title that keeps the extension
titleFromFilename_WholeName(filename) == filename

\* upload/route.ts lines 23-26: the name without its last extension
titleFromFilename(filename) ==
    LET dot == lastIndexOfDot(filename)
        trimmed == IF /\ dot >= 1 /\ dot < Len(filename)
                      /\ \A i \in (dot + 1)..Len(filename) : filename[i] # "/"
                   THEN SubSeq(filename, 1, dot - 1)
                   ELSE filename
    IN  IF trimmed = <<>> THEN Untitled ELSE trimmed

\* DATE_REGEX = /^\d{4}-\d{2}-\d{2}$/ on a string
DATE_REGEX(text) ==
    /\ Len(text) = 10
    /\ \A i \in {1, 2, 3, 4, 6, 7, 9, 10} : text[i] \in SeqRange(DigitChars)
    /\ text[5] = "-" /\ text[8] = "-"

\* A JSON value of a request body is <<kind, text>>: kind is "undefined"
\* (the key is absent), "null", "string" or "number".
isDateString(value) == value[1] = "string" /\ DATE_REGEX(value[2])

\* a key that a PATCH body does not have
Absent == <<"undefined", <<>>>>

\* a PATCH body that names nothing
NoPatch == [reimbursed |-> "undefined", reimbursedDate |-> Absent, title |-> Absent,
            id |-> Absent, fileId |-> Absent, hasFile |-> "undefined"]

\* line 12
MAX_SHORT_TEXT == 200

\* String.prototype.trim, of a sequence of characters
trim(text) ==
    LET inked == {i \in 1..Len(text) : text[i] # " "}
    IN  IF inked = {} THEN <<>>
        ELSE SubSeq(text, CHOOSE i \in inked : \A j \in inked : i <= j,
                          CHOOSE i \in inked : \A j \in inked : i >= j)

\* a sanitizeUpdates that takes over every key the body has
sanitizeUpdates_Unfiltered(body) ==
    [has |-> {k \in {"title", "reimbursedDate", "id", "fileId"} : body[k] # Absent}
                \cup {k \in {"reimbursed", "hasFile"} : body[k] # "undefined"},
     title |-> body.title[2], reimbursed |-> body.reimbursed = "true",
     reimbursedDate |-> body.reimbursedDate[2], id |-> body.id[2],
     fileId |-> body.fileId[2], hasFile |-> body.hasFile = "true"]

\* documents/[id]/route.ts lines 33-75: what sanitizeUpdates takes over
\* from body.title, from body.reimbursed ("true" and "false" are the
\* booleans, "string" a value of another type) and from
\* body.reimbursedDate; it reads no other key of the body.  `has` holds
\* the keys of `updates`.
sanitizeUpdates(body) ==
    LET u0 == IF body.title[1] = "string" /\ Len(body.title[2]) <= MAX_SHORT_TEXT
              THEN [has |-> {"title"}, reimbursed |-> FALSE, reimbursedDate |-> NoDate,
                    title |-> IF trim(body.title[2]) = <<>> THEN Untitled
                              ELSE trim(body.title[2])]
              ELSE [has |-> {}, reimbursed |-> FALSE, reimbursedDate |-> NoDate,
                    title |-> <<>>]
        u1 == IF body.reimbursed \in {"true", "false"}
              THEN [u0 EXCEPT !.has = @ \cup {"reimbursed"},
                              !.reimbursed = body.reimbursed = "true"]
              ELSE u0
        d  == body.reimbursedDate
        u2 == IF d[1] # "undefined"
              THEN IF d[1] = "null" \/ (d[1] = "string" /\ d[2] = <<>>)
                   THEN [u1 EXCEPT !.has = @ \cup {"reimbursedDate"}, !.reimbursedDate = NoDate]
                   ELSE IF isDateString(d)
                   THEN [u1 EXCEPT !.has = @ \cup {"reimbursedDate"}, !.reimbursedDate = d[2]]
                   ELSE u1
              ELSE u1
    IN  IF "reimbursed" \in u2.has /\ ~u2.reimbursed /\ "reimbursedDate" \notin u2.has
        THEN [u2 EXCEPT !.has = @ \cup {"reimbursedDate"}, !.reimbursedDate = NoDate]
        ELSE u2

\* line 100, { ...existing, ...updates }: every key of `updates` replaces
\* or adds the key of the record
MergeUpdates(existing, updates) ==
    [k \in DOMAIN existing \cup updates.has |->
        IF k \in updates.has THEN updates[k] ELSE existing[k]]

\* documents/route.ts normalizeDocument, for the fields of the model: null
\* (NoDoc) for a record without an id, with hasFile but no fileId, with a
\* fileId but not hasFile, or with a reimbursedDate that is no date; the
\* filename is taken as it is, and the date of an unreimbursed record is
\* dropped
normalizeDocument(doc) ==
    IF doc.id = <<>> THEN NoDoc
    ELSE IF doc.hasFile /\ doc.fileId = NoFile THEN NoDoc
    ELSE IF ~doc.hasFile /\ doc.fileId # NoFile THEN NoDoc
    ELSE IF doc.reimbursedDate # NoDate /\ ~DATE_REGEX(doc.reimbursedDate) THEN NoDoc
    ELSE [doc EXCEPT !.reimbursedDate = IF doc.reimbursed THEN @ ELSE NoDate]

\* the null of normalizeDocumentsFile
InvalidBody == [version |-> 0, documents |-> <<>>]

\* documents/route.ts normalizeDocumentsFile: null when a record is
\* rejected
normalizeDocumentsFile(body) ==
    IF \E i \in 1..Len(body.documents) : normalizeDocument(body.documents[i]) = NoDoc
    THEN InvalidBody
    ELSE [version |-> body.version,
          documents |-> [i \in 1..Len(body.documents) |-> normalizeDocument(body.documents[i])]]

\* documents/[id]/route.ts DELETE: the mutator
RemoveById(documents, id) ==
    LET index == findIndex(documents, id)
    IN  IF index = 0 THEN documents ELSE Splice(documents, index)

(***************************************************************************)
(* State                                                                   *)
(***************************************************************************)
VARIABLES
    cfg,        \* per call: what was requested, by which process, with which access token
    docs0,      \* the documents of the collection when the model starts
    blobs,      \* the metadata blobs in the file store: id, owner, name, text, version
    docBlobs,   \* the ids of the uploaded document blobs in the file store
    pc,         \* per call: where the handler stands
    attempt,    \* per call: the loop variable of the retry loop
    fileId,     \* per call: the id getOrCreateMetadataFileId resolved
    etag,       \* per call: the etag read so far in this attempt
    readData,   \* per call: state.data of this attempt
    final,      \* per call: the collection this attempt writes
    err,        \* per call: the error the handler ended with
    writeLocks, \* per process: key -> the call whose `next` promise is in the map (0: no entry)
    prev,       \* per call: the call whose `next` promise it awaits (0: Promise.resolve())
    released,   \* per call: its `next` promise is resolved
    idx,        \* per upload call: the files staged so far
    entries,    \* per upload call: createdEntries
    pending,    \* per upload call: the blobs rollbackUploads has not yet tried to delete
    delFailed,  \* per call: the blobs whose deletion by the handler failed
    removed,    \* per DELETE call: the closure variable `removed` (NoDoc: null)
    updated,    \* per PATCH call: the closure variable `updated` (NoDoc: null)
    authModule, \* which of the two copies of the auth module the build runs
    authCfg,    \* per session request: its process and the JWT getToken decoded
    refreshPromises, \* per process: key -> the request whose renewal promise is registered (0: none)
    promise,    \* per request: the renewal promise it created
    apc,        \* per request: where its ensureFresh call stands
    awaited,    \* per request: the request whose renewal promise it awaits (0: none)
    result,     \* per request: the token ensureFresh returned
    blind,      \* history: the call sent a content update without If-Match
    conflicts,  \* history: precondition failures the call received
    nAccepted,  \* history: content updates of the call the store accepted
    basis,      \* history: <<blob, version>> the accepted attempt had read
    firstErr,   \* history: the first error other than a conflict inside readModifyWrite
    deletedIds, \* history: record ids removed by an accepted DELETE
    effects,    \* history: the kinds of work the call has started
    ocrResult,  \* per upload call: what runOcr did for each file so far
    ocr         \* the field extractor: the text it was called with, how far it is, its fields

vars == <<cfg, docs0, blobs, docBlobs, pc, attempt, fileId, etag, readData, final, err,
          writeLocks, prev, released, idx, entries, pending, delFailed, removed, updated,
          authModule, authCfg, refreshPromises, promise, apc, awaited, result,
          blind, conflicts, nAccepted, basis, firstErr, deletedIds, effects, ocr, ocrResult>>

staticVars == <<cfg, docs0>>

lockVars == <<writeLocks, prev, released>>

closureVars == <<removed, updated>>

authVars == <<authModule, authCfg, refreshPromises, promise, apc, awaited, result>>

uploadVars == <<idx, entries, pending, delFailed>>

historyVars == <<blind, conflicts, nAccepted, basis, firstErr, deletedIds>>

NoCall == [op |-> "none", proc |-> "p1", token |-> "tA1", target |-> <<>>, files |-> <<>>,
           body |-> EmptyFile, patch |-> NoPatch, faults |-> {}, after |-> 0, ocrs |-> {Extracted}]

Active == {c \in Calls : cfg[c].op # "none"}

\* The errors a request of call c may meet: cfg[c].faults holds the errors
\* with which, in this run, the file store fails requests of this call.
\* cfg[c].after names the call whose answer the client awaits before it
\* sends this one (0: none).
Faults(c) == cfg[c].faults

Owner(c) == TokenIdentity(cfg[c].token)

\* one key for every access token
LockKey_Shared(accessToken) == <<"sha256/16", "tA1">>

\* createHash("sha256").update(accessToken).digest("hex").slice(0, 16)
LockKey(accessToken) == <<"sha256/16", accessToken>>

LockKeys == {LockKey(t) : t \in Tokens}

BlobById(id) == CHOOSE b \in blobs : b.id = id

\* drive.files.list with q: name = '...' in the caller's appDataFolder
ListByName(owner, name) == {b \in blobs : b.owner = owner /\ b.name = name}

InLane(c) ==
    /\ cfg[c].op # "read"
    /\ pc[c] \in {"list", "legacy", "rename", "create", "getMeta", "getMedia", "update"}

Ended(c) == pc[c] \in {"done", "failed", "rejected"}

(***************************************************************************)
(* withWriteLock                                                           *)
(***************************************************************************)
\* lines 534-538: the synchronous prologue, up to `await prev`
Acquire(c) ==
    LET p   == cfg[c].proc
        key == LockKey(cfg[c].token)
    IN  /\ prev' = [prev EXCEPT ![c] = writeLocks[p][key]]
        /\ writeLocks' = [writeLocks EXCEPT ![p][key] = c]
        /\ effects' = [effects EXCEPT ![c] = @ \cup {"lock"}]
        /\ UNCHANGED released

\* a finally block that forgets to resolve the promise of the call
Release_Unresolved(c) ==
    LET p   == cfg[c].proc
        key == LockKey(cfg[c].token)
    IN  /\ writeLocks' = [writeLocks EXCEPT ![p][key] = IF @ = c THEN 0 ELSE @]
        /\ UNCHANGED <<released, prev>>

\* lines 542-547: the finally block
Release(c) ==
    LET p   == cfg[c].proc
        key == LockKey(cfg[c].token)
    IN  IF cfg[c].op = "read"
        THEN UNCHANGED lockVars
        ELSE /\ released' = [released EXCEPT ![c] = TRUE]
             /\ writeLocks' = [writeLocks EXCEPT ![p][key] = IF @ = c THEN 0 ELSE @]
             /\ UNCHANGED prev

\* `await prev` has nothing left to wait for: its continuation is a
\* microtask, which the process runs before it takes up another request
ReadyToEnter(c) == pc[c] = "await" /\ (IF prev[c] = 0 THEN TRUE ELSE released[prev[c]])

\* `await prev` returns: fn() starts with the first iteration of the loop
Enter(c) ==
    /\ ReadyToEnter(c)
    /\ pc' = [pc EXCEPT ![c] = "list"]
    /\ attempt' = [attempt EXCEPT ![c] = 0]
    /\ UNCHANGED <<staticVars, authVars, ocr, ocrResult, closureVars, blobs, docBlobs, fileId, etag, readData, final, err,
                   lockVars, uploadVars, historyVars, effects>>

(***************************************************************************)
(* How a handler leaves the lock                                           *)
(***************************************************************************)
\* a catch that rolls back only when every file of a batch of two was
\* staged
NeedsRollback_FullBatchOnly(metadataCommitted, createdEntries) ==
    ~metadataCommitted /\ Len(createdEntries) > 1

\* upload/route.ts line 170: !metadataCommitted && createdEntries.length > 0
NeedsRollback(metadataCommitted, createdEntries) ==
    ~metadataCommitted /\ Len(createdEntries) > 0

\* a rollback that deletes the blob of the first entry only
RollbackIds_FirstOnly(es) == {es[i].fileId : i \in 1..Len(es) \cap {1}} \ {NoFile}

RollbackIds(es) == {es[i].fileId : i \in 1..Len(es)} \ {NoFile}

\* fn() rejects with error e: the lock is released and the handler's catch
\* runs.  upload/route.ts starts rollbackUploads when it created entries.
Throw(c, e) ==
    /\ err' = [err EXCEPT ![c] = e]
    /\ Release(c)
    /\ firstErr' = [firstErr EXCEPT ![c] = IF @ = NoErr /\ e \in OtherErrors THEN e ELSE @]
    /\ IF cfg[c].op = "upload" /\ NeedsRollback(FALSE, entries[c])
       THEN /\ pc' = [pc EXCEPT ![c] = "rollback"]
            /\ pending' = [pending EXCEPT ![c] = RollbackIds(entries[c])]
       ELSE /\ pc' = [pc EXCEPT ![c] = "failed"]
            /\ UNCHANGED pending
    /\ fileId' = [fileId EXCEPT ![c] = NoFile]
    /\ etag' = [etag EXCEPT ![c] = NoEtag]
    /\ readData' = [readData EXCEPT ![c] = EmptyFile]
    /\ final' = [final EXCEPT ![c] = EmptyFile]
    /\ UNCHANGED <<staticVars, authVars, ocr, ocrResult, closureVars, blobs, docBlobs, attempt, idx, entries, delFailed,
                   nAccepted, basis, deletedIds>>

(***************************************************************************)
(* getOrCreateMetadataFileId                                               *)
(***************************************************************************)
\* lines 638-647: list the blobs named documents.json.  The list has no
\* orderBy, so with several such blobs files[0] is any of them.
ListMeta(c) ==
    /\ pc[c] = "list"
    /\ effects' = [effects EXCEPT ![c] = @ \cup {"metaRead"}]
    /\ UNCHANGED conflicts
    /\ \/ \E e \in Faults(c) : Throw(c, e) /\ UNCHANGED blind
       \/ /\ LET existing == ListByName(Owner(c), DOCUMENTS_METADATA_NAME)
             IN  IF existing # {}
                 THEN \E b \in existing :
                        /\ fileId' = [fileId EXCEPT ![c] = b.id]
                        /\ pc' = [pc EXCEPT ![c] = "getMeta"]
                 ELSE /\ pc' = [pc EXCEPT ![c] = "legacy"]
                      /\ UNCHANGED fileId
          /\ UNCHANGED <<staticVars, authVars, ocr, ocrResult, closureVars, blobs, docBlobs, attempt, etag, readData, final, err,
                         lockVars, uploadVars, historyVars>>

\* lines 649-662: list the blobs named receipts.json
LegacyList(c) ==
    /\ pc[c] = "legacy"
    /\ UNCHANGED <<conflicts, effects>>
    /\ \/ \E e \in Faults(c) : Throw(c, e) /\ UNCHANGED blind
       \/ /\ LET legacy == ListByName(Owner(c), LEGACY_METADATA_NAME)
             IN  IF legacy # {}
                 THEN \E b \in legacy :
                        /\ fileId' = [fileId EXCEPT ![c] = b.id]
                        /\ pc' = [pc EXCEPT ![c] = "rename"]
                 ELSE /\ pc' = [pc EXCEPT ![c] = "create"]
                      /\ UNCHANGED fileId
          /\ UNCHANGED <<staticVars, authVars, ocr, ocrResult, closureVars, blobs, docBlobs, attempt, etag, readData, final, err,
                         lockVars, uploadVars, blind, nAccepted, basis, firstErr, deletedIds>>

\* lines 656-661: files.update(requestBody: { name }) gives the legacy blob
\* the name documents.json; its content stays, and whether the file store
\* counts the rename as a new version of the blob is the store's choice.
RenameLegacy(c) ==
    /\ pc[c] = "rename"
    /\ UNCHANGED <<conflicts, effects>>
    /\ \/ \E e \in Faults(c) : Throw(c, e) /\ UNCHANGED blind
       \/ /\ LET b == BlobById(fileId[c])
             IN  \E v \in {b.ver, b.ver + 1} :
                    blobs' = (blobs \ {b}) \cup
                               {[b EXCEPT !.name = DOCUMENTS_METADATA_NAME, !.ver = v]}
          /\ pc' = [pc EXCEPT ![c] = "getMeta"]
          /\ UNCHANGED <<staticVars, authVars, ocr, ocrResult, closureVars, docBlobs, attempt, fileId, etag, readData, final, err,
                         lockVars, uploadVars, blind, nAccepted, basis, firstErr, deletedIds>>

\* lines 664-681: create documents.json holding the empty collection.  The
\* create carries no precondition.
CreateMeta(c) ==
    /\ pc[c] = "create"
    /\ UNCHANGED <<conflicts, effects>>
    /\ \/ \E e \in Faults(c) : Throw(c, e) /\ UNCHANGED blind
       \/ /\ blobs' = blobs \cup {[id |-> <<"meta", c>>, owner |-> Owner(c),
                                   name |-> DOCUMENTS_METADATA_NAME,
                                   raw |-> Stringify(EmptyFile), ver |-> 1]}
          /\ fileId' = [fileId EXCEPT ![c] = <<"meta", c>>]
          /\ pc' = [pc EXCEPT ![c] = "getMeta"]
          /\ UNCHANGED <<staticVars, authVars, ocr, ocrResult, closureVars, docBlobs, attempt, etag, readData, final, err,
                         lockVars, uploadVars, blind, nAccepted, basis, firstErr, deletedIds>>

(***************************************************************************)
(* readDocumentsFileState                                                  *)
(***************************************************************************)
\* lines 688-694: files.get(fields: "id, version"); the etag of the header
\* or, failing that, of the body
GetMetadata(c) ==
    /\ pc[c] = "getMeta"
    /\ UNCHANGED <<conflicts, effects>>
    /\ \/ \E e \in Faults(c) : Throw(c, e) /\ UNCHANGED blind
       \/ /\ \E header \in RawEtags(BlobById(fileId[c]).ver),
                body \in BodyEtags(BlobById(fileId[c]).ver) :
                etag' = [etag EXCEPT ![c] =
                           IF extractEtag(header) # NoEtag THEN extractEtag(header)
                           ELSE extractEtag(body)]
          /\ pc' = [pc EXCEPT ![c] = "getMedia"]
          /\ UNCHANGED <<staticVars, authVars, ocr, ocrResult, closureVars, blobs, docBlobs, attempt, fileId, readData, final, err,
                         lockVars, uploadVars, blind, nAccepted, basis, firstErr, deletedIds>>

\* What modify(working) leaves in `working` (no mutator returns a value),
\* and what it leaves in createdEntries.
Modify(c, working) ==
    LET same == [data |-> working, entries |-> entries[c],
                 removed |-> removed[c], updated |-> updated[c]]
    IN
    CASE cfg[c].op = "create" ->
           [same EXCEPT !.data.documents = Append(@, ManualEntry(c))]
      [] cfg[c].op = "delete" ->
           LET index == findIndex(working.documents, cfg[c].target)
           IN  [same EXCEPT !.data.documents = RemoveById(@, cfg[c].target),
                            !.removed = IF index = 0 THEN @ ELSE working.documents[index]]
      [] cfg[c].op = "patch" ->
           LET index == findIndex(working.documents, cfg[c].target)
           IN  IF index = 0 THEN same
               ELSE LET doc == MergeUpdates(working.documents[index],
                                            sanitizeUpdates(cfg[c].patch))
                    IN  [same EXCEPT !.data.documents[index] = doc, !.updated = doc]
      [] cfg[c].op = "upload" ->
           LET r == AppendEntries(working.documents, entries[c])
           IN  [same EXCEPT !.data.documents = r.documents, !.entries = r.entries]
      [] OTHER -> same

\* lines 696-706 and 776-782 (747 for writeDocumentsFile): files.get(alt:
\* "media"), parse, then, without an await in between, the mutator.
\* writeDocumentsFile writes the collection it was given, the validated
\* body of the PUT: the client's bulk clear sends { version: 1,
\* documents: [] }.
GetMedia(c) ==
    /\ pc[c] = "getMedia"
    /\ UNCHANGED <<conflicts, effects>>
    /\ \/ \E e \in Faults(c) : Throw(c, e) /\ UNCHANGED blind
       \/ LET b    == BlobById(fileId[c])
              data == parseDocumentsFile(b.raw)
              m    == Modify(c, data)
          IN  /\ \E header \in RawEtags(b.ver) :
                    etag' = [etag EXCEPT ![c] =
                               IF @ # NoEtag THEN @ ELSE extractEtag(header)]
              /\ readData' = [readData EXCEPT ![c] = data]
              /\ final' = [final EXCEPT ![c] = IF cfg[c].op = "put" THEN normalizeDocumentsFile(cfg[c].body) ELSE m.data]
              /\ entries' = [entries EXCEPT ![c] = m.entries]
              /\ removed' = [removed EXCEPT ![c] = m.removed]
              /\ updated' = [updated EXCEPT ![c] = m.updated]
              /\ basis' = [basis EXCEPT ![c] = <<b.id, b.ver>>]
              /\ pc' = [pc EXCEPT ![c] = IF cfg[c].op = "read" THEN "done" ELSE "update"]
              /\ UNCHANGED <<staticVars, authVars, ocr, ocrResult, blobs, docBlobs, attempt, fileId, err,
                             lockVars, idx, pending, delFailed, blind, nAccepted, firstErr, deletedIds>>

(***************************************************************************)
(* writeDocumentsFileState and the retry loop                              *)
(***************************************************************************)
\* a loop that gives up one conflict earlier
RetryExhausted_OneEarlier(a) == a = WRITE_RETRY_LIMIT - 2

\* line 791 (755): attempt === WRITE_RETRY_LIMIT - 1
RetryExhausted(a) == a = WRITE_RETRY_LIMIT - 1

\* lines 723-729: the request carries If-Match exactly when etag is truthy
SendsIfMatch(e) == e # NoEtag

\* The file store's side of a content update: without If-Match it applies
\* the update, with If-Match only when the etag is the current one.
StoreAccepts(b, ifMatch, e) == ~ifMatch \/ e = b.ver

RemovedIds(c) ==
    {readData[c].documents[i].id : i \in 1..Len(readData[c].documents)}
      \ {final[c].documents[i].id : i \in 1..Len(final[c].documents)}

\* a DELETE that deletes a blob for every record it removed
Unlinks_WhateverHasFile(doc) == doc # NoDoc

\* documents/[id]/route.ts lines 136-141: after the store call the DELETE
\* handler deletes a blob when `removed` is set and doc.hasFile && doc.fileId
Unlinks(doc) == doc # NoDoc /\ doc.hasFile /\ doc.fileId # NoFile

\* lines 774 and 797 (746): the loop runs while attempt < WRITE_RETRY_LIMIT
LoopContinues(a) == a < WRITE_RETRY_LIMIT

\* lines 784-794 (748-758): the update, and what the catch and the loop do
\* with its outcome
Update(c) ==
    LET b  == BlobById(fileId[c])
        ok == StoreAccepts(b, SendsIfMatch(etag[c]), etag[c])
    IN
    /\ pc[c] = "update"
    /\ effects' = [effects EXCEPT ![c] = @ \cup {"metaWrite"}]
    /\ blind' = [blind EXCEPT ![c] = @ \/ ~SendsIfMatch(etag[c])]
    /\ \/ \E e \in Faults(c) \cup (IF ok THEN {} ELSE PreconditionErrors) :
            /\ conflicts' = [conflicts EXCEPT ![c] =
                               IF e \in PreconditionErrors THEN @ + 1 ELSE @]
            /\ IF ~isWriteConflictError(e) \/ RetryExhausted(attempt[c])
               THEN Throw(c, e)
               ELSE IF LoopContinues(attempt[c] + 1)
               THEN /\ attempt' = [attempt EXCEPT ![c] = @ + 1]
                    /\ pc' = [pc EXCEPT ![c] = "list"]
                    /\ firstErr' = [firstErr EXCEPT ![c] =
                                      IF @ = NoErr /\ e \in OtherErrors THEN e ELSE @]
                    /\ UNCHANGED <<staticVars, authVars, ocr, ocrResult, closureVars, blobs, docBlobs, fileId, etag, readData,
                                   final, err, lockVars, uploadVars,
                                   nAccepted, basis, deletedIds>>
               ELSE Throw(c, ErrExceeded)
       \/ /\ ok
          /\ blobs' = (blobs \ {b}) \cup
                        {[b EXCEPT !.raw = Stringify(final[c]), !.ver = @ + 1]}
          /\ nAccepted' = [nAccepted EXCEPT ![c] = @ + 1]
          /\ deletedIds' = IF cfg[c].op = "delete"
                           THEN deletedIds \cup RemovedIds(c) ELSE deletedIds
          /\ pc' = [pc EXCEPT ![c] = IF cfg[c].op = "delete" /\ Unlinks(removed[c])
                                     THEN "unlink" ELSE "done"]
          /\ Release(c)
          /\ fileId' = [fileId EXCEPT ![c] = NoFile]
          /\ etag' = [etag EXCEPT ![c] = NoEtag]
          /\ UNCHANGED <<staticVars, authVars, ocr, ocrResult, closureVars, docBlobs, attempt, readData, final, err,
                         uploadVars, conflicts, basis, firstErr>>

(***************************************************************************)
(* upload/route.ts POST                                                    *)
(***************************************************************************)
\* file.type.toLowerCase(), on the media types the model draws from
toLowerCase(t) == IF t = "IMAGE/PNG" THEN "image/png" ELSE t

\* lines 85-99: one turn of the validation loop
FileValid(f) == ~(f.size > MAX_FILE_SIZE) /\ toLowerCase(f.type) \in ALLOWED_TYPES

\* a validation that looks at the first file only
BatchValid_FirstOnly(files) == Len(files) > 0 /\ FileValid(files[1])

\* lines 80-100: the batch passes when it is not empty and no turn returns
BatchValid(files) == Len(files) > 0 /\ \A i \in 1..Len(files) : FileValid(files[i])

\* The handler is entered.  documents/route.ts POST and PUT and
\* documents/[id]/route.ts DELETE call into the store at once (the request
\* body is already parsed); upload/route.ts validates the batch first.
\* GET calls readDocumentsFile, which takes no lock (lines 733-737).
Start(c) ==
    /\ pc[c] = "idle"
    /\ c \in Active
    /\ \A d \in Active : d < c => pc[d] # "idle"
    /\ \A d \in Active : cfg[d].proc = cfg[c].proc => ~ReadyToEnter(d)
    /\ IF cfg[c].after = 0 THEN TRUE ELSE Ended(cfg[c].after)
    /\ IF cfg[c].op = "upload"
       THEN /\ pc' = [pc EXCEPT ![c] = IF BatchValid(cfg[c].files) THEN "ocr" ELSE "rejected"]
            /\ UNCHANGED <<lockVars, effects>>
       ELSE IF cfg[c].op = "put" /\ normalizeDocumentsFile(cfg[c].body) = InvalidBody
       THEN /\ pc' = [pc EXCEPT ![c] = "rejected"]
            /\ UNCHANGED <<lockVars, effects>>
       ELSE IF cfg[c].op = "read"
       THEN /\ pc' = [pc EXCEPT ![c] = "list"]
            /\ UNCHANGED <<lockVars, effects>>
       ELSE /\ Acquire(c)
            /\ pc' = [pc EXCEPT ![c] = "await"]
    /\ UNCHANGED <<staticVars, authVars, ocr, ocrResult, closureVars, blobs, docBlobs, attempt, fileId, etag, readData, final, err,
                   uploadVars, historyVars>>

\* lines 108-127: runOcr; a failure is logged and the loop goes on
RunOcr(c) ==
    /\ pc[c] = "ocr"
    /\ effects' = [effects EXCEPT ![c] = @ \cup {"ocr"}]
    /\ \E o \in cfg[c].ocrs : ocrResult' = [ocrResult EXCEPT ![c] = Append(@, o)]
    /\ pc' = [pc EXCEPT ![c] = "blob"]
    /\ UNCHANGED <<staticVars, authVars, ocr, closureVars, blobs, docBlobs, attempt, fileId, etag, readData, final, err,
                   lockVars, uploadVars, historyVars>>

\* lines 126-151: the record built for file i of call c from what runOcr
\* left in `ocr`
CreatedEntry(c, i) ==
    LET guess == ocrResult[c][i].value
    IN  [id |-> <<"u", c, i>>, fileId |-> <<"doc", c, i>>,
         filename |-> cfg[c].files[i].name, hasFile |-> TRUE,
         title |-> IF guess.title # <<>> THEN guess.title
                   ELSE titleFromFilename(cfg[c].files[i].name),
         category |-> guess.category,
         date |-> IF DATE_REGEX(guess.date) THEN guess.date ELSE Today,
         amount |-> IF guess.amount >= 0 THEN guess.amount ELSE 0,
         reimbursed |-> FALSE, reimbursedDate |-> NoDate,
         ocrConfidence |-> guess.confidence]

\* a loop that is left after its first file
StagingDone_AfterFirst(c, i) == i >= 1

\* line 107: the loop over the files has staged the last of them
StagingDone(c, i) == i = Len(cfg[c].files)

\* lines 129-152 and 155: uploadDocumentFile for the next file (its folder
\* lookups are part of the request); after the last file the handler calls
\* readModifyWriteDocuments, whose lock prologue runs at once.  A failure
\* goes to the catch of line 169.
UploadBlob(c) ==
    LET i == idx[c] + 1
    IN
    /\ pc[c] = "blob"
    /\ UNCHANGED <<staticVars, authVars, ocr, ocrResult, closureVars, blobs, attempt, fileId, etag, readData, final, delFailed,
                   historyVars>>
    /\ \/ \E e \in Faults(c) :
            /\ err' = [err EXCEPT ![c] = e]
            /\ effects' = [effects EXCEPT ![c] = @ \cup {"blobCreate"}]
            /\ IF NeedsRollback(FALSE, entries[c])
               THEN /\ pc' = [pc EXCEPT ![c] = "rollback"]
                    /\ pending' = [pending EXCEPT ![c] = RollbackIds(entries[c])]
               ELSE /\ pc' = [pc EXCEPT ![c] = "failed"]
                    /\ UNCHANGED pending
            /\ UNCHANGED <<docBlobs, lockVars, idx, entries>>
       \/ /\ docBlobs' = docBlobs \cup {<<"doc", c, i>>}
          /\ entries' = [entries EXCEPT ![c] = Append(@, CreatedEntry(c, i))]
          /\ idx' = [idx EXCEPT ![c] = i]
          /\ UNCHANGED <<err, pending>>
          /\ IF StagingDone(c, i)
             THEN /\ LET p   == cfg[c].proc
                         key == LockKey(cfg[c].token)
                     IN  /\ prev' = [prev EXCEPT ![c] = writeLocks[p][key]]
                         /\ writeLocks' = [writeLocks EXCEPT ![p][key] = c]
                         /\ UNCHANGED released
                  /\ effects' = [effects EXCEPT ![c] = @ \cup {"blobCreate", "lock"}]
                  /\ pc' = [pc EXCEPT ![c] = "await"]
             ELSE /\ effects' = [effects EXCEPT ![c] = @ \cup {"blobCreate"}]
                  /\ pc' = [pc EXCEPT ![c] = "ocr"]
                  /\ UNCHANGED lockVars

\* a rollback that ends with the first deletion that fails
allSettled_FirstRejection(left, rejected) == left = {} \/ rejected

\* lines 60-68, Promise.allSettled: the rollback ends when every deletion has
\* settled, whether it was fulfilled or rejected
allSettled(left, rejected) == left = {}

\* lines 55-69: one of the deletions rollbackUploads started settles; a
\* failed deletion is logged.  After the last one the handler answers with
\* the error that sent it to the catch.
RollbackDelete(c) ==
    /\ pc[c] = "rollback"
    /\ \E f \in pending[c] :
         /\ pending' = [pending EXCEPT ![c] = @ \ {f}]
         /\ \/ /\ docBlobs' = docBlobs \ {f} /\ UNCHANGED delFailed
               /\ pc' = [pc EXCEPT ![c] = IF allSettled(pending[c] \ {f}, FALSE)
                                          THEN "failed" ELSE "rollback"]
            \/ /\ \E e \in Faults(c) : delFailed' = [delFailed EXCEPT ![c] = @ \cup {f}]
               /\ UNCHANGED docBlobs
               /\ pc' = [pc EXCEPT ![c] = IF allSettled(pending[c] \ {f}, TRUE)
                                          THEN "failed" ELSE "rollback"]
    /\ effects' = [effects EXCEPT ![c] = @ \cup {"blobDelete"}]
    /\ UNCHANGED <<staticVars, authVars, ocr, ocrResult, closureVars, blobs, attempt, fileId, etag, readData, final, err,
                   lockVars, idx, entries, historyVars>>

\* documents/[id]/route.ts lines 141-149: deleteDocumentFile for the blob
\* of the removed record; a failure is logged and the handler answers ok.
DeleteBlob(c) ==
    /\ pc[c] = "unlink"
    /\ \/ docBlobs' = docBlobs \ {removed[c].fileId} /\ UNCHANGED delFailed
       \/ /\ \E e \in Faults(c) :
               delFailed' = [delFailed EXCEPT ![c] = @ \cup {removed[c].fileId}]
          /\ UNCHANGED docBlobs
    /\ pc' = [pc EXCEPT ![c] = "done"]
    /\ effects' = [effects EXCEPT ![c] = @ \cup {"blobDelete"}]
    /\ UNCHANGED <<staticVars, authVars, ocr, ocrResult, closureVars, blobs, attempt, fileId, etag, readData, final, err,
                   lockVars, idx, entries, pending, historyVars>>

(***************************************************************************)
(* Token renewal (lib/auth.ts, and its second copy at the end of           *)
(* lib/drive.ts)                                                           *)
(***************************************************************************)
\* session requests that ask for a usable access token at the same time
NumSessions == 2

Sessions == 1..NumSessions

Identities == {"A", "B"}

\* Date.now() / 1000 while the requests run
Now == 1000

\* the jwt callback's margin: a token is renewed 60 seconds before it expires
REFRESH_MARGIN == 60

\* expires_in of the identity provider's answer
EXPIRES_IN == 3600

\* token.error; "" is undefined
NoError == ""

\* a JWT of the session: sub (the account), accessToken, refreshToken (""
\* is undefined), expiresAt (0 is undefined) and error
JWT(sub, accessToken, refreshToken, expiresAt) ==
    [sub |-> sub, accessToken |-> accessToken, refreshToken |-> refreshToken,
     expiresAt |-> expiresAt, error |-> NoError]

\* The tokens a request can carry.  Of account A: one expiring within the
\* margin, with and without a refresh token, one without an expiry, and one
\* valid for longer than the margin.  Of account B: one expiring within
\* the margin.
SessionTokens ==
    {JWT("A", <<"access", "A", 1>>, <<"refresh", "A", 1>>, Now + REFRESH_MARGIN),
     JWT("A", <<"access", "A", 1>>, <<>>, Now + REFRESH_MARGIN),
     JWT("A", <<"access", "A", 1>>, <<"refresh", "A", 1>>, 0),
     JWT("A", <<"access", "A", 1>>, <<"refresh", "A", 1>>, Now + REFRESH_MARGIN + 1),
     JWT("B", <<"access", "B", 1>>, <<"refresh", "B", 1>>, Now + REFRESH_MARGIN)}

\* the account a refresh token was granted for
GrantedTo(refreshToken) == refreshToken[2]

\* the promise a request has not created
NoPromise == [state |-> "none", rejected |-> FALSE, ok |-> FALSE,
              value |-> JWT("A", <<>>, <<>>, 0)]

\* auth.ts line 77: the token is valid for longer than the margin
IsFresh(token) == token.expiresAt # 0 /\ Now < token.expiresAt - REFRESH_MARGIN

\* drive.ts line 270: the key of the map; auth.ts line 8 has one promise
\* for all
refreshKey(token) ==
    IF authModule = "drive.ts" THEN token.sub ELSE "singleton"

GuardKeys == Identities \cup {"singleton"}

\* a guard that never finds a renewal in flight
Registered_Never(proc, key) == 0

\* refreshPromises.get(key), or the value of refreshPromise
Registered(proc, key) == refreshPromises[proc][key]

\* doRefreshAccessToken lines 19-21 and 30: the first step of the renewal,
\* up to the response of fetch
StartRefresh(token) ==
    IF token.refreshToken = <<>>
    THEN [state |-> "settling", rejected |-> FALSE, ok |-> FALSE,
          value |-> [token EXCEPT !.error = "MissingRefreshToken"]]
    ELSE [state |-> "fetch", rejected |-> FALSE, ok |-> FALSE, value |-> token]

\* refreshAccessToken: the promise registered under the key is returned,
\* or else a renewal is started and its promise registered
refreshAccessToken(s) ==
    LET token == authCfg[s].token
        proc == authCfg[s].proc
        key == refreshKey(token)
        existing == Registered(proc, key)
    IN  IF existing # 0
        THEN /\ awaited' = [awaited EXCEPT ![s] = existing]
             /\ UNCHANGED <<promise, refreshPromises>>
        ELSE /\ promise' = [promise EXCEPT ![s] = StartRefresh(token)]
             /\ refreshPromises' = [refreshPromises EXCEPT ![proc][key] = s]
             /\ awaited' = [awaited EXCEPT ![s] = s]

storeVars == <<cfg, docs0, blobs, docBlobs, pc, attempt, fileId, etag, readData, final, err,
               lockVars, uploadVars, closureVars, historyVars, effects, ocrResult>>

\* ensureFreshAccessToken: a token valid for longer than the margin is
\* returned as it is; otherwise the caller awaits refreshAccessToken.  The
\* callback of .finally is a microtask of the settling renewal: it has run
\* before the process takes up the next request.
ensureFresh(s) ==
    /\ apc[s] = "idle"
    /\ authCfg[s].on
    /\ \A t \in Sessions : authCfg[t].proc = authCfg[s].proc => promise[t].state # "settling"
    /\ IF IsFresh(authCfg[s].token)
       THEN /\ apc' = [apc EXCEPT ![s] = "returned"]
            /\ result' = [result EXCEPT ![s] = authCfg[s].token]
            /\ UNCHANGED <<promise, refreshPromises, awaited>>
       ELSE /\ refreshAccessToken(s)
            /\ apc' = [apc EXCEPT ![s] = "await"]
            /\ UNCHANGED result
    /\ UNCHANGED <<storeVars, ocr, authModule, authCfg>>

\* doRefreshAccessToken line 30: the answer to the POST, or no answer (the
\* promise of fetch rejects)
FetchResponds(s) ==
    /\ promise[s].state = "fetch"
    /\ \/ \E ok \in BOOLEAN : promise' = [promise EXCEPT ![s].state = "json", ![s].ok = ok]
       \/ promise' = [promise EXCEPT ![s].state = "settling", ![s].rejected = TRUE]
    /\ UNCHANGED <<storeVars, ocr, authModule, authCfg, refreshPromises, apc, awaited, result>>

\* doRefreshAccessToken lines 36-47: the body is parsed (response.json()
\* rejects when it is no JSON), then the token is built
ReadJson(s) ==
    /\ promise[s].state = "json"
    /\ LET token == promise[s].value
       IN  \/ promise' = [promise EXCEPT ![s].state = "settling", ![s].rejected = TRUE]
           \/ /\ ~promise[s].ok
              /\ promise' = [promise EXCEPT ![s].state = "settling",
                                            ![s].value.error = "RefreshAccessTokenError"]
           \/ /\ promise[s].ok
              /\ \E rotated \in BOOLEAN :
                   LET user == GrantedTo(token.refreshToken)
                   IN  promise' = [promise EXCEPT
                          ![s].state = "settling",
                          ![s].value.accessToken = <<"access", user, 2>>,
                          ![s].value.expiresAt = Now + EXPIRES_IN,
                          ![s].value.refreshToken =
                              IF rotated THEN <<"refresh", user, 2>> ELSE token.refreshToken]
    /\ UNCHANGED <<storeVars, ocr, authModule, authCfg, refreshPromises, apc, awaited, result>>

\* a callback that leaves the entry in place
Deleted_Kept(map, proc, key) == map

\* drive.ts line 275: refreshPromises.delete(key); auth.ts line 13:
\* refreshPromise = null
Deleted(map, proc, key) == [map EXCEPT ![proc][key] = 0]

\* the callback of .finally: the entry is removed once the renewal has
\* settled, whatever its outcome, and the promise the callers hold settles
Finally(s) ==
    /\ promise[s].state = "settling"
    /\ promise' = [promise EXCEPT ![s].state = "settled"]
    /\ refreshPromises' = Deleted(refreshPromises, authCfg[s].proc, refreshKey(authCfg[s].token))
    /\ UNCHANGED <<storeVars, ocr, authModule, authCfg, apc, awaited, result>>

\* the caller's await ends: with the token of the renewal, or by throwing
\* what the renewal rejected with
Resume(s) ==
    /\ apc[s] = "await"
    /\ promise[awaited[s]].state = "settled"
    /\ IF promise[awaited[s]].rejected
       THEN /\ apc' = [apc EXCEPT ![s] = "thrown"]
            /\ UNCHANGED result
       ELSE /\ apc' = [apc EXCEPT ![s] = "returned"]
            /\ result' = [result EXCEPT ![s] = promise[awaited[s]].value]
    /\ UNCHANGED <<storeVars, ocr, authModule, authCfg, refreshPromises, promise, awaited>>

RefreshStep(s) ==
    \/ ensureFresh(s)
    \/ FetchResponds(s)
    \/ ReadJson(s)
    \/ Finally(s)
    \/ Resume(s)

NextRefresh == \E s \in Sessions : RefreshStep(s)

\* a request that does not take part
NoSession == [on |-> FALSE, proc |-> "p1", token |-> JWT("A", <<>>, <<>>, 0)]

\* no request has asked for a token
InitPromises ==
    /\ refreshPromises = [p \in Procs |-> [k \in GuardKeys |-> 0]]
    /\ promise = [s \in Sessions |-> NoPromise]
    /\ apc = [s \in Sessions |-> "idle"]
    /\ awaited = [s \in Sessions |-> 0]
    /\ result = [s \in Sessions |-> NoPromise.value]

\* the store specifications: no request renews a token
InitAuth ==
    /\ authModule = "auth.ts"
    /\ authCfg = [s \in Sessions |-> NoSession]
    /\ InitPromises

(***************************************************************************)
(* Field extraction (lib/ocr.ts, extractTitle, extractDate, extractAmount, *)
(* extractCategory and the end of runOcr)                                  *)
(***************************************************************************)
\* the longest recognized text, in lines
MaxLines == 3

\* The lines a recognized text is made of.  What the patterns and keyword
\* lists of the extractor find in a line is tabulated below; every match
\* starts at the first character of its line.
Rule == "________________________________________________________"

Phrases == {"Date:", "DOS:", "01/02/2024", "3/4/24", Rule, "copay", "dental crown",
            "$12.50", "Fax"}

\* fullText as the sequence of its lines, which "\n" separates
Texts == UNION {[1..n -> Phrases] : n \in 1..MaxLines}

\* the texts of the calls made between two calls of one text
OtherTexts == {t \in Texts : Len(t) = 1}

RECURSIVE LineStart(_, _)
LineStart(text, i) ==
    IF i = 1 THEN 0 ELSE LineStart(text, i - 1) + Len(text[i - 1]) + 1

TextLength(text) == LineStart(text, Len(text)) + Len(text[Len(text)])

\* lines 109-116: the line is 3 to 80 characters long, matches no skip
\* pattern, is not made of digits and separators, and holds a letter
TitleOk(line) ==
    /\ ~(Len(line) < 3 \/ Len(line) > 80)
    /\ line \in {"Date:", "DOS:", "copay", "dental crown", "Fax"}

\* lines 124-205: the pattern (1 to 5) that matches the line, the date it
\* yields and the priority it is pushed with; pattern 0 is no match
NoDateMatch == [pattern |-> 0, date |-> "", priority |-> 0]

DateMatch(line) ==
    IF line = "01/02/2024" THEN [pattern |-> 1, date |-> "2024-01-02", priority |-> 1]
    ELSE IF line = "3/4/24" THEN [pattern |-> 3, date |-> "2024-03-04", priority |-> 2]
    ELSE NoDateMatch

\* lines 208-219: dateKeywords
dateKeywords ==
    <<[keyword |-> "date of service", priority |-> 10],
      [keyword |-> "service date", priority |-> 10],
      [keyword |-> "dos:", priority |-> 10],
      [keyword |-> "dos ", priority |-> 10],
      [keyword |-> "statement date", priority |-> 8],
      [keyword |-> "invoice date", priority |-> 8],
      [keyword |-> "visit date", priority |-> 9],
      [keyword |-> "procedure date", priority |-> 9],
      [keyword |-> "date:", priority |-> 7],
      [keyword |-> "dated:", priority |-> 7]>>

\* line 207 and indexOf: the keywords the lower-cased line holds
Holds(line) ==
    IF line = "Date:" THEN {"date:"}
    ELSE IF line = "DOS:" THEN {"dos:"}
    ELSE IF line = "copay" THEN {"copay"}
    ELSE IF line = "dental crown" THEN {"dental", "crown"}
    ELSE IF line = "Fax" THEN {"fax"}
    ELSE {}

\* lines 228 and 329: the offset up to which a keyword reaches
DATE_WINDOW == 60

AMOUNT_WINDOW == 80

\* the candidates one pattern pushes, in the order of the text
RECURSIVE PushMatches(_, _, _, _)
PushMatches(array, text, p, i) ==
    IF i > Len(text) THEN array
    ELSE PushMatches(IF DateMatch(text[i]).pattern = p
                     THEN Append(array, [date |-> DateMatch(text[i]).date,
                                         index |-> LineStart(text, i),
                                         priority |-> DateMatch(text[i]).priority])
                     ELSE array,
                     text, p, i + 1)

RECURSIVE PushPatterns(_, _, _)
PushPatterns(array, text, p) ==
    IF p > 5 THEN array ELSE PushPatterns(PushMatches(array, text, p, 1), text, p + 1)

\* line 228: candidates.find, the first element of the array in the window
find(candidates, at) ==
    LET near == {k \in 1..Len(candidates) :
                    candidates[k].index > at /\ candidates[k].index < at + DATE_WINDOW}
    IN  IF near = {} THEN 0 ELSE CHOOSE k \in near : \A j \in near : k <= j

\* lines 221-233: for every keyword, for every place it occurs
RECURSIVE BoostDates(_, _, _, _)
BoostDates(candidates, text, r, i) ==
    IF r > Len(dateKeywords) THEN candidates
    ELSE IF i > Len(text) THEN BoostDates(candidates, text, r + 1, 1)
    ELSE LET nearbyCandidate == find(candidates, LineStart(text, i))
         IN  BoostDates(IF dateKeywords[r].keyword \in Holds(text[i]) /\ nearbyCandidate # 0
                        THEN [candidates EXCEPT ![nearbyCandidate].priority =
                                                    @ + dateKeywords[r].priority]
                        ELSE candidates,
                        text, r, i + 1)

\* lines 235-238: the comparison of the sort
DateBefore(a, b) ==
    a.priority > b.priority \/ (a.priority = b.priority /\ a.index < b.index)

\* the array that lived on from the call before
NewCandidates_Kept(kept) == kept

\* line 122: const candidates = []
NewCandidates(kept) == <<>>

\* lines 122-233: the candidates as they are before the sort; `kept` is
\* the array of the call before
DateCandidates(text, kept) ==
    BoostDates(PushPatterns(NewCandidates(kept), text, 1), text, 1, 1)

\* lines 235-244: element 0 of the (stable) sort, or ""
PickDate(candidates) ==
    IF Len(candidates) > 0
    THEN LET k == CHOOSE k \in 1..Len(candidates) :
                    \A j \in 1..Len(candidates) \ {k} :
                        /\ ~DateBefore(candidates[j], candidates[k])
                        /\ j < k => DateBefore(candidates[k], candidates[j])
         IN  candidates[k].date
    ELSE ""

extractDate(text, kept) == PickDate(DateCandidates(text, kept))

\* lines 299-319: dollarPattern finds "$12.50", in cents (the match of
\* plainPattern one character later is the amount that already exists)
AmountMatch(line) == IF line = "$12.50" THEN 1250 ELSE 0

\* AMOUNT_KEYWORDS (lines 247-293), those a line of Phrases holds
AMOUNT_KEYWORDS == <<[keyword |-> "copay", priority |-> 6]>>

RECURSIVE SumPriorities(_)
SumPriorities(ps) ==
    IF ps = {} THEN 0
    ELSE LET p == CHOOSE p \in ps : TRUE IN p[2] + SumPriorities(ps \ {p})

\* lines 321-334: every candidate in the window of an occurrence is boosted
AmountBoost(text, index) ==
    SumPriorities({<<r, AMOUNT_KEYWORDS[r[1]].priority>> :
                      r \in {q \in (1..Len(AMOUNT_KEYWORDS)) \X (1..Len(text)) :
                               /\ AMOUNT_KEYWORDS[q[1]].keyword \in Holds(text[q[2]])
                               /\ index > LineStart(text, q[2])
                               /\ index < LineStart(text, q[2]) + AMOUNT_WINDOW}})

\* lines 336-347: text.slice(index - 30, index + 30) holds "fax"
AmountPenalty(text, index) ==
    LET start == IF index - 30 > 0 THEN index - 30 ELSE 0
        end   == IF TextLength(text) < index + 30 THEN TextLength(text) ELSE index + 30
    IN  IF \E j \in 1..Len(text) :
              /\ "fax" \in Holds(text[j])
              /\ LineStart(text, j) >= start
              /\ LineStart(text, j) + 3 <= end
        THEN 10 ELSE 0

AmountCandidates(text) ==
    LET at == {i \in 1..Len(text) : AmountMatch(text[i]) > 0}
    IN  {[amount |-> AmountMatch(text[i]), index |-> LineStart(text, i),
          priority |-> 1 + AmountBoost(text, LineStart(text, i))
                          - AmountPenalty(text, LineStart(text, i))] : i \in at}

\* lines 349-363
extractAmount(text) ==
    LET candidates == AmountCandidates(text)
    IN  IF candidates = {} THEN 0
        ELSE LET top == CHOOSE c \in candidates :
                            \A d \in candidates :
                                c.priority > d.priority
                                \/ (c.priority = d.priority /\ c.amount >= d.amount)
                 largest == CHOOSE c \in candidates : \A d \in candidates : c.amount >= d.amount
             IN  IF top.priority > 0 THEN top.amount ELSE largest.amount

\* lines 68-98: CATEGORY_KEYWORDS, in the order of its keys, with the
\* keywords a line of Phrases holds
CATEGORY_KEYWORDS ==
    <<[category |-> "Pharmacy", keywords |-> {"copay"}],
      [category |-> "Dental", keywords |-> {"dental", "crown"}],
      [category |-> "Vision", keywords |-> {}],
      [category |-> "Medical", keywords |-> {"copay"}],
      [category |-> "Lab/Test", keywords |-> {}],
      [category |-> "Mental Health", keywords |-> {}],
      [category |-> "Physical Therapy", keywords |-> {}]>>

\* lines 370-377: the number of keywords of the category the text holds
Score(text, k) ==
    Cardinality({w \in CATEGORY_KEYWORDS[k].keywords : \E i \in 1..Len(text) : w \in Holds(text[i])})

\* lines 379-388
RECURSIVE BestCategory(_, _, _, _)
BestCategory(text, k, bestCategory, bestScore) ==
    IF k > Len(CATEGORY_KEYWORDS) THEN bestCategory
    ELSE IF Score(text, k) > bestScore
         THEN BestCategory(text, k + 1, CATEGORY_KEYWORDS[k].category, Score(text, k))
         ELSE BestCategory(text, k + 1, bestCategory, bestScore)

extractCategory(text) == BestCategory(text, 1, "", 0)

\* lines 108-118
extractTitle(lines) ==
    LET ok == {i \in 1..Len(lines) : i <= 10 /\ TitleOk(lines[i])}
    IN  IF ok = {} THEN "" ELSE lines[CHOOSE i \in ok : \A j \in ok : i <= j]

NoFields == [title |-> "", date |-> "", amount |-> 0, category |-> ""]

NoOcr == [doc |-> <<>>, pc |-> "idle", text |-> <<>>, candidates |-> <<>>,
          fields |-> NoFields, first |-> NoFields, seen |-> FALSE, between |-> FALSE]

\* runOcr is called with a text: the document, or (once the document has
\* been through) another text
BeginOcr ==
    /\ ocr.pc = "idle"
    /\ \E t \in {ocr.doc} \cup {o \in OtherTexts : ocr.seen} :
         ocr' = [ocr EXCEPT !.pc = "amount", !.text = t, !.fields = NoFields]
    /\ UNCHANGED <<storeVars, authVars>>

\* line 481
OcrAmount ==
    /\ ocr.pc = "amount"
    /\ ocr' = [ocr EXCEPT !.pc = "title", !.fields.amount = extractAmount(ocr.text)]
    /\ UNCHANGED <<storeVars, authVars>>

\* lines 477 and 501
OcrTitle ==
    /\ ocr.pc = "title"
    /\ ocr' = [ocr EXCEPT !.pc = "date", !.fields.title = extractTitle(ocr.text)]
    /\ UNCHANGED <<storeVars, authVars>>

\* line 502
OcrDate ==
    /\ ocr.pc = "date"
    /\ ocr' = [ocr EXCEPT !.pc = "category",
                          !.candidates = DateCandidates(ocr.text, ocr.candidates),
                          !.fields.date = extractDate(ocr.text, ocr.candidates)]
    /\ UNCHANGED <<storeVars, authVars>>

\* line 504
OcrCategory ==
    /\ ocr.pc = "category"
    /\ ocr' = [ocr EXCEPT !.pc = "return", !.fields.category = extractCategory(ocr.text)]
    /\ UNCHANGED <<storeVars, authVars>>

\* line 515: the fields are returned
EndOcr ==
    /\ ocr.pc = "return"
    /\ ocr' = [ocr EXCEPT !.pc = "idle",
                          !.first = IF ocr.seen THEN @ ELSE ocr.fields,
                          !.seen = TRUE,
                          !.between = ocr.seen /\ (@ \/ ocr.text # ocr.doc)]
    /\ UNCHANGED <<storeVars, authVars>>

InitOcr == ocr = NoOcr

(***************************************************************************)
(* Initial states and specifications                                       *)
(***************************************************************************)
\* documents.json as it is in the file store when the model starts
Blob0 == [id |-> <<"meta", 0>>, owner |-> "A", name |-> DOCUMENTS_METADATA_NAME,
          raw |-> Stringify([version |-> 1, documents |-> <<Doc0>>]), ver |-> 1]

\* the same collection in a blob that still has the name and the
\* `receipts` array of the time before the migration
Legacy0 == [Blob0 EXCEPT !.name = LEGACY_METADATA_NAME, !.raw.fmt = "receipts"]

\* No handler has run yet in any process.
InitCalls ==
    /\ pc = [c \in Calls |-> "idle"]
    /\ attempt = [c \in Calls |-> 0]
    /\ fileId = [c \in Calls |-> NoFile]
    /\ etag = [c \in Calls |-> NoEtag]
    /\ readData = [c \in Calls |-> EmptyFile]
    /\ final = [c \in Calls |-> EmptyFile]
    /\ err = [c \in Calls |-> NoErr]
    /\ writeLocks = [p \in Procs |-> [k \in LockKeys |-> 0]]
    /\ prev = [c \in Calls |-> 0]
    /\ released = [c \in Calls |-> FALSE]
    /\ idx = [c \in Calls |-> 0]
    /\ entries = [c \in Calls |-> <<>>]
    /\ pending = [c \in Calls |-> {}]
    /\ delFailed = [c \in Calls |-> {}]
    /\ removed = [c \in Calls |-> NoDoc]
    /\ updated = [c \in Calls |-> NoDoc]
    /\ blind = [c \in Calls |-> FALSE]
    /\ conflicts = [c \in Calls |-> 0]
    /\ nAccepted = [c \in Calls |-> 0]
    /\ basis = [c \in Calls |-> <<>>]
    /\ firstErr = [c \in Calls |-> NoErr]
    /\ deletedIds = {}
    /\ effects = [c \in Calls |-> {}]
    /\ ocrResult = [c \in Calls |-> <<>>]

\* The user has a documents.json holding one record, a receipts.json
\* holding it, or none yet.
InitStore ==
    \/ blobs \in {{Blob0}, {Legacy0}} /\ docs0 = <<Doc0>> /\ docBlobs = {Doc0.fileId}
    \/ blobs = {} /\ docs0 = <<>> /\ docBlobs = {}

\* A request of the store's callers: manual create, DELETE of the record
\* Doc0, or the bulk clear (PUT).
StoreCall(op, proc, token) ==
    [op |-> op, proc |-> proc, token |-> token,
     target |-> IF op = "delete" THEN Doc0.id ELSE <<>>, files |-> <<>>,
     body |-> EmptyFile, patch |-> NoPatch, faults |-> OtherErrors, after |-> 0, ocrs |-> {Extracted}]

\* Who calls: a process and the access token of the request.  Three lanes
\* give every way two or three calls can share a process or a lock key.
Clients == {<<"p1", "tA1">>, <<"p1", "tA2">>, <<"p2", "tA1">>}

StoreCalls == {StoreCall(op, cl[1], cl[2]) : op \in {"create", "delete", "put"}, cl \in Clients}

\* NumCalls requests to the store, each from any process with any of the
\* user's access tokens (the first one names the process and the token).
Init ==
    /\ InitCalls
    /\ InitAuth
    /\ InitOcr
    /\ InitStore
    /\ \E f \in [1..NumCalls -> StoreCalls] :
         /\ f[1].proc = "p1" /\ f[1].token = "tA1"
         /\ cfg = [c \in Calls |-> IF c <= NumCalls THEN f[c] ELSE NoCall]

StoreStep(c) ==
    \/ Start(c)
    \/ Enter(c)
    \/ ListMeta(c)
    \/ LegacyList(c)
    \/ RenameLegacy(c)
    \/ CreateMeta(c)
    \/ GetMetadata(c)
    \/ GetMedia(c)
    \/ Update(c)

\* what a route handler does once the store call has returned
HandlerStep(c) == DeleteBlob(c)

Next == \E c \in Calls : StoreStep(c) \/ HandlerStep(c)

Spec == Init /\ [][Next]_vars

\* The retry specification: one request in process p1, and a client of
\* process p2 that sends WRITE_RETRY_LIMIT manual creates, each after the
\* answer to the one before, none of whose requests the file store fails.
\* On a store that still holds the legacy blob the request is a create.
InitRetry ==
    /\ InitCalls
    /\ InitAuth
    /\ InitOcr
    /\ InitStore
    /\ \E op \in {"create", "delete", "put"} :
         /\ blobs = {Legacy0} => op = "create"
         /\ cfg = [c \in Calls |-> IF c = 1 THEN StoreCall(op, "p1", "tA1")
                                ELSE [StoreCall("create", "p2", "tA1")
                                        EXCEPT !.faults = {},
                                               !.after = IF c = 2 THEN 0 ELSE c - 1]]

SpecRetry == InitRetry /\ [][Next]_vars

\* The queue specification: three requests of one access token in process
\* p1.  The file store fails requests of the first with a 500 or, as when
\* writers outside the process keep replacing the blob, with a 412, and
\* requests of the second with a 500.  Every remote call returns, and a
\* continuation that can run does run: each step of a call but its arrival
\* is weakly fair.
InitQueue ==
    /\ InitCalls
    /\ InitAuth
    /\ InitOcr
    /\ InitStore
    /\ \E op \in {"create", "delete", "put"} :
         cfg = [c \in Calls |->
                  IF c = 1 THEN [StoreCall(op, "p1", "tA1") EXCEPT !.faults = {Err500, Conflict412}]
                  ELSE IF c = 2 THEN [StoreCall("create", "p1", "tA1") EXCEPT !.faults = {Err500}]
                  ELSE IF c = 3 THEN [StoreCall("delete", "p1", "tA1") EXCEPT !.faults = {}]
                  ELSE NoCall]

Returns(c) ==
    \/ Enter(c)
    \/ ListMeta(c)
    \/ LegacyList(c)
    \/ RenameLegacy(c)
    \/ CreateMeta(c)
    \/ GetMetadata(c)
    \/ GetMedia(c)
    \/ Update(c)
    \/ DeleteBlob(c)

SpecQueue == InitQueue /\ [][Next]_vars /\ \A c \in Calls : WF_vars(Returns(c))

(***************************************************************************)
(* The upload specifications                                               *)
(***************************************************************************)
UploadStep(c) ==
    \/ RunOcr(c)
    \/ UploadBlob(c)
    \/ RollbackDelete(c)

NextUpload == \E c \in Calls : StoreStep(c) \/ HandlerStep(c) \/ UploadStep(c)

\* an upload on its own: no DELETE handler runs
NextValidate == \E c \in Calls : StoreStep(c) \/ UploadStep(c)

Batches(fileSet) == UNION {[1..n -> fileSet] : n \in 1..MaxFiles}

UploadCall(files) ==
    [op |-> "upload", proc |-> "p1", token |-> "tA1", target |-> <<>>, files |-> files,
     body |-> EmptyFile, patch |-> NoPatch, faults |-> {Err500}, after |-> 0, ocrs |-> {Extracted}]

\* File names of a batch: the name Doc0 has, and the name deduplication
\* gives a second "b.j".
FileNames == {<<"b", ".", "j">>, <<"b", "_", "1", ".", "j">>}

ValidFiles == {[name |-> n, size |-> MAX_FILE_SIZE, type |-> "image/jpeg"] : n \in FileNames}

\* what a request racing with the upload deletes: Doc0, or the record of
\* the first file of the batch
RivalTargets == {Doc0.id, <<"u", 1, 1>>}

\* who sends it: the uploader's own process with the same access token
\* (the same lane), or another process
RivalClients == {<<"p1", "tA1">>, <<"p2", "tA1">>}

RivalCalls ==
    {[op |-> "create", proc |-> cl[1], token |-> cl[2], target |-> <<>>, files |-> <<>>,
      body |-> EmptyFile, patch |-> NoPatch, faults |-> {}, after |-> 0, ocrs |-> {Extracted}] : cl \in RivalClients}
    \cup {[op |-> "delete", proc |-> cl[1], token |-> cl[2], target |-> t, files |-> <<>>,
            body |-> EmptyFile, patch |-> NoPatch, faults |-> {}, after |-> 0, ocrs |-> {Extracted}] : cl \in RivalClients, t \in RivalTargets}

\* One upload batch of valid files, and one other request of the same user
\* whose requests the file store does not fail.
InitUpload ==
    /\ InitCalls
    /\ InitAuth
    /\ InitOcr
    /\ InitStore
    /\ \E files \in Batches(ValidFiles), rival \in RivalCalls :
         cfg = [c \in Calls |-> IF c = 1 THEN UploadCall(files)
                                ELSE IF c = 2 THEN rival ELSE NoCall]

SpecUpload == InitUpload /\ [][NextUpload]_vars

\* Files at, and one byte over, the size limit; media types in and outside
\* the allow-list, one of them spelled in capitals.
AnyFiles ==
    {[name |-> <<"b", ".", "j">>, size |-> sz, type |-> t]
        : sz \in {MAX_FILE_SIZE, MAX_FILE_SIZE + 1},
          t \in {"application/pdf", "IMAGE/PNG", "text/plain"}}

\* One upload batch of any files, alone.
InitValidate ==
    /\ InitCalls
    /\ InitAuth
    /\ InitOcr
    /\ InitStore
    /\ \E files \in Batches(AnyFiles) :
         cfg = [c \in Calls |-> IF c = 1 THEN UploadCall(files) ELSE NoCall]

SpecValidate == InitValidate /\ [][NextValidate]_vars

\* The error specification: a read, a manual create or an upload batch whose
\* remote calls the file store may refuse for missing authorization (401 or
\* 403) or fail otherwise, and one other request of the same user in
\* another process, none of whose requests the file store fails.
FaultSets == {{Err401}, {Err403}, {Err500}}

InitErrors ==
    /\ InitCalls
    /\ InitAuth
    /\ InitOcr
    /\ InitStore
    /\ \E faults \in FaultSets :
         \E first \in {StoreCall("read", "p1", "tA1"), StoreCall("create", "p1", "tA1")}
                          \cup {UploadCall(files) : files \in Batches(ValidFiles)} :
           \E rival \in {r \in RivalCalls : r.proc = "p2" /\ r.target # <<"u", 1, 1>>} :
             cfg = [c \in Calls |-> IF c = 1 THEN [first EXCEPT !.faults = faults]
                                    ELSE IF c = 2 THEN rival ELSE NoCall]

SpecErrors == InitErrors /\ [][NextUpload]_vars

\* The recognition specification: one upload batch, alone, of files for
\* each of which runOcr returns fields, returns none or throws; one of the
\* names is an extension only.
OcrFiles == ValidFiles \cup {[name |-> <<".", "j">>, size |-> MAX_FILE_SIZE, type |-> "image/jpeg"]}

InitOcrBatch ==
    /\ InitCalls
    /\ InitAuth
    /\ InitOcr
    /\ InitStore
    /\ \E files \in Batches(OcrFiles) :
         cfg = [c \in Calls |-> IF c = 1
                                THEN [UploadCall(files) EXCEPT !.ocrs = {Extracted, Unreadable, Threw}]
                                ELSE NoCall]

SpecOcrBatch == InitOcrBatch /\ [][NextValidate]_vars

(***************************************************************************)
(* The DELETE specification                                                *)
(***************************************************************************)
\* a record without a file, as a manual entry leaves it
DocM == [id |-> <<"d", 1>>, fileId |-> NoFile, filename |-> NoName, hasFile |-> FALSE,
         reimbursed |-> FALSE, reimbursedDate |-> NoDate]

\* a documents.json that holds a record with a file and one without
BlobD == [Blob0 EXCEPT !.raw = Stringify([version |-> 1, documents |-> <<Doc0, DocM>>])]

LegacyD == [BlobD EXCEPT !.name = LEGACY_METADATA_NAME, !.raw.fmt = "receipts"]

\* params.id of a DELETE: the record with a file, the one without, or the
\* id of no record
DeleteTargets == {Doc0.id, DocM.id, <<"d", 2>>}

DeleteCall(target, proc, token) ==
    [StoreCall("delete", proc, token) EXCEPT !.target = target]

\* A DELETE in process p1, and one other request of the same user, whose
\* requests the file store does not fail: a DELETE, a manual create or the
\* bulk clear.
InitDelete ==
    /\ InitCalls
    /\ InitAuth
    /\ InitOcr
    /\ \/ blobs \in {{BlobD}, {LegacyD}} /\ docs0 = <<Doc0, DocM>> /\ docBlobs = {Doc0.fileId}
       \/ blobs = {} /\ docs0 = <<>> /\ docBlobs = {}
    /\ \E t \in DeleteTargets, cl \in Clients :
         \E rival \in {DeleteCall(u, cl[1], cl[2]) : u \in DeleteTargets}
                        \cup {StoreCall("create", cl[1], cl[2]), StoreCall("put", cl[1], cl[2])} :
            cfg = [c \in Calls |-> IF c = 1 THEN DeleteCall(t, "p1", "tA1")
                                   ELSE IF c = 2 THEN [rival EXCEPT !.faults = {}]
                                   ELSE NoCall]

SpecDelete == InitDelete /\ [][Next]_vars

(***************************************************************************)
(* The PATCH specification                                                 *)
(***************************************************************************)
\* "2025-02-03"
Date1 == <<"2", "0", "2", "5", "-", "0", "2", "-", "0", "3">>

\* body.reimbursed absent, a boolean or of another type; body.reimbursedDate
\* absent, null, "", a well-formed date, another string, or a number
PatchBodies ==
    {[NoPatch EXCEPT !.reimbursed = r, !.reimbursedDate = d] :
        r \in {"undefined", "true", "false", "string"},
        d \in {Absent, <<"null", <<>>>>, <<"string", <<>>>>,
                <<"string", Date1>>, <<"string", <<"s", "o", "o", "n">>>>,
                <<"number", <<"5">>>>}}

PatchCall(target, body) ==
    [StoreCall("patch", "p1", "tA1") EXCEPT !.target = target, !.patch = body,
                                            !.faults = {Err500}]

\* A PATCH of the record Doc0, or of no record, in process p1, and a manual
\* create or a DELETE of Doc0 from another process, whose requests the file
\* store does not fail.
InitPatch ==
    /\ InitCalls
    /\ InitAuth
    /\ InitOcr
    /\ InitStore
    /\ \E t \in {Doc0.id, <<"d", 2>>}, body \in PatchBodies, op \in {"create", "delete"} :
         cfg = [c \in Calls |-> IF c = 1 THEN PatchCall(t, body)
                                ELSE IF c = 2 THEN [StoreCall(op, "p2", "tA1") EXCEPT !.faults = {}]
                                ELSE NoCall]

SpecPatch == InitPatch /\ [][Next]_vars

\* PATCH bodies for the frame: a title with blanks around it, a blank title
\* or none; reimbursed absent or false; with or without the keys id,
\* fileId and hasFile, which no PATCH may change
FrameBodies ==
    {[NoPatch EXCEPT !.title = t, !.reimbursed = r, !.id = i, !.fileId = f, !.hasFile = h] :
        t \in {Absent, <<"string", <<" ", "N">>>>, <<"string", <<" ">>>>},
        r \in {"undefined", "false"},
        i \in {Absent, <<"string", <<"d", 9>>>>},
        f \in {Absent, <<"null", NoFile>>},
        h \in {"undefined", "false"}}

\* A PATCH of Doc0 with one of these bodies, and a manual create or a
\* DELETE of Doc0 from another process.
InitFrame ==
    /\ InitCalls
    /\ InitAuth
    /\ InitOcr
    /\ InitStore
    /\ \E body \in FrameBodies, op \in {"create", "delete"} :
         cfg = [c \in Calls |-> IF c = 1 THEN PatchCall(Doc0.id, body)
                                ELSE IF c = 2 THEN [StoreCall(op, "p2", "tA1") EXCEPT !.faults = {}]
                                ELSE NoCall]

SpecFrame == InitFrame /\ [][Next]_vars

(***************************************************************************)
(* The PUT specification                                                   *)
(***************************************************************************)
\* The records of a PUT body: Doc0 as the client had read it; Doc0 without
\* a filename; a record without a file that has a filename; Doc0 without a
\* fileId; a record with a fileId but hasFile = false; Doc0 unreimbursed
\* with its date; Doc0 with a reimbursedDate that is no date.
PutRecords ==
    {Doc0,
     [Doc0 EXCEPT !.filename = NoName],
     [Doc0 EXCEPT !.hasFile = FALSE, !.fileId = NoFile],
     [Doc0 EXCEPT !.fileId = NoFile],
     [Doc0 EXCEPT !.hasFile = FALSE],
     [Doc0 EXCEPT !.reimbursed = FALSE],
     [Doc0 EXCEPT !.reimbursedDate = <<"s", "o", "o", "n">>]}

\* The body of a PUT: the bulk clear of the client, { version: 1,
\* documents: [] }, or a collection of one record.
PutBodies == {EmptyFile} \cup {[version |-> 1, documents |-> <<doc>>] : doc \in PutRecords}

PutCall(body) == [StoreCall("put", "p1", "tA1") EXCEPT !.body = body, !.faults = {Err500}]

\* A manual create or a DELETE of Doc0, in the same process or in another,
\* whose requests the file store does not fail, and a PUT in process p1.
InitPut ==
    /\ InitCalls
    /\ InitAuth
    /\ InitOcr
    /\ InitStore
    /\ \E body \in PutBodies, op \in {"create", "delete"}, proc \in Procs :
         cfg = [c \in Calls |-> IF c = 1 THEN [StoreCall(op, proc, "tA1") EXCEPT !.faults = {}]
                                ELSE IF c = 2 THEN PutCall(body)
                                ELSE NoCall]

SpecPut == InitPut /\ [][Next]_vars

(***************************************************************************)
(* The read specification                                                  *)
(***************************************************************************)
\* a documents.json whose content is no JSON
BlobBad == [Blob0 EXCEPT !.raw = [fmt |-> "unparsable", version |-> 0, list |-> <<>>]]

\* a documents.json whose content is a JSON object with neither a
\* documents nor a receipts array, and with no version
BlobOdd == [Blob0 EXCEPT !.raw = [fmt |-> "object", version |-> 0, list |-> <<>>]]

ReadCall(proc) == [StoreCall("read", proc, "tA1") EXCEPT !.faults = {Err500}]

\* A read (GET /api/documents) in process p1, and a read, a manual create
\* or a DELETE of Doc0 in either process, whose requests the file store
\* does not fail.  The store holds documents.json, well-formed or not,
\* receipts.json, or nothing.
InitRead ==
    /\ InitCalls
    /\ InitAuth
    /\ InitOcr
    /\ \/ blobs \in {{Blob0}, {Legacy0}, {BlobBad}, {BlobOdd}}
          /\ docs0 = <<Doc0>> /\ docBlobs = {Doc0.fileId}
       \/ blobs = {} /\ docs0 = <<>> /\ docBlobs = {}
    /\ \E op \in {"read", "create", "delete"}, proc \in Procs :
         cfg = [c \in Calls |-> IF c = 1 THEN ReadCall("p1")
                                ELSE IF c = 2 THEN [StoreCall(op, proc, "tA1") EXCEPT !.faults = {}]
                                ELSE NoCall]

SpecRead == InitRead /\ [][Next]_vars

(***************************************************************************)
(* The extraction specification                                            *)
(***************************************************************************)
NextExtract ==
    \/ BeginOcr
    \/ OcrAmount
    \/ OcrTitle
    \/ OcrDate
    \/ OcrCategory
    \/ EndOcr

\* runOcr is called with one recognized text, then with others, then with
\* the first again; no request is being handled.
InitExtract ==
    /\ InitCalls
    /\ InitAuth
    /\ blobs = {} /\ docs0 = <<>> /\ docBlobs = {}
    /\ cfg = [c \in Calls |-> NoCall]
    /\ \E t \in Texts : ocr = [NoOcr EXCEPT !.doc = t]

SpecExtract == InitExtract /\ [][NextExtract]_vars

(***************************************************************************)
(* The specification of two identities                                     *)
(***************************************************************************)
\* One process serves a request of account A and a request of account B.
\* A has a documents.json, a receipts.json or none; B has none yet.
InitLanes ==
    /\ InitCalls
    /\ InitAuth
    /\ InitOcr
    /\ InitStore
    /\ \E opA \in {"create", "delete", "put"}, opB \in {"create", "put"} :
         cfg = [c \in Calls |-> IF c = 1 THEN StoreCall(opA, "p1", "tA1")
                                ELSE IF c = 2 THEN StoreCall(opB, "p1", "tB1")
                                ELSE NoCall]

SpecLanes == InitLanes /\ [][Next]_vars

(***************************************************************************)
(* The token renewal specification                                         *)
(***************************************************************************)
\* NumSessions requests ask for a usable access token, each in either
\* process and with any of the session tokens; the first one is a request
\* of account A in process p1.  No request to the store runs.
InitRefresh ==
    /\ InitCalls
    /\ blobs = {} /\ docs0 = <<>> /\ docBlobs = {}
    /\ cfg = [c \in Calls |-> NoCall]
    /\ InitOcr
    /\ authModule \in {"auth.ts", "drive.ts"}
    /\ \E f \in [Sessions -> [on : {TRUE}, proc : Procs, token : SessionTokens]] :
         /\ f[1].proc = "p1" /\ f[1].token.sub = "A"
         /\ authCfg = f
    /\ InitPromises

SpecRefresh == InitRefresh /\ [][NextRefresh]_vars

(***************************************************************************)
(* Properties of the store                                                 *)
(***************************************************************************)
SameUser(c, d) == Owner(c) = Owner(d)

SameProcess(c, d) == cfg[c].proc = cfg[d].proc

\* the collections a read may return: one per blob named documents.json
Collections == {parseDocumentsFile(b.raw) : b \in ListByName("A", DOCUMENTS_METADATA_NAME)}

Ids(documents) == {documents[i].id : i \in 1..Len(documents)}

\* C1: two calls of one process for one identity are never both between
\* the first read and the end of their body.
C1_LaneMutualExclusion ==
    \A c \in Active, d \in Active :
        (c # d /\ SameProcess(c, d) /\ SameUser(c, d)) => ~(InLane(c) /\ InLane(d))

\* the documents left by the mutators of the calls in S, applied one after
\* another in every order
RECURSIVE SerialResults(_, _)
SerialResults(S, documents) ==
    IF S = {} THEN {documents}
    ELSE UNION {SerialResults(S \ {c},
                   IF cfg[c].op = "put" THEN normalizeDocumentsFile(cfg[c].body).documents
                   ELSE Modify(c, [version |-> 1, documents |-> documents]).data.documents)
                : c \in S}

\* C2: when all calls were issued in one process (for the one identity) and
\* all of them have returned successfully, the collection is what the
\* mutators give when applied one after another in some order.
C2_NoLostUpdate ==
    ((\A c \in Active : pc[c] = "done") /\ (\A c \in Active, d \in Active : SameProcess(c, d)))
        => \A data \in Collections : data.documents \in SerialResults(Active, docs0)

\* C3: two writers of different processes that read the same state of the
\* blob do not both get their write accepted.
C3_AtMostOneWinner ==
    \A c \in Active, d \in Active :
        (c # d /\ ~SameProcess(c, d) /\ nAccepted[c] > 0 /\ nAccepted[d] > 0)
            => basis[c] # basis[d]

\* C5: no call ever sends a content update that carries no If-Match.
C5_NoBlindOverwrite == \A c \in Calls : ~blind[c]

\* C6: a call makes at most WRITE_RETRY_LIMIT attempts, each one after the
\* first follows a conflict, it ends at its first accepted write, and only
\* the conflict of the last attempt ends it with that error and no write.
C6_RetryBound ==
    \A c \in Active :
        /\ attempt[c] < WRITE_RETRY_LIMIT
        /\ conflicts[c] <= WRITE_RETRY_LIMIT
        /\ nAccepted[c] <= 1
        /\ InLane(c) => conflicts[c] = attempt[c]
        /\ nAccepted[c] = 1 <=> pc[c] \in {"unlink", "done"}
        /\ pc[c] = "done" => conflicts[c] = attempt[c]
        /\ (pc[c] = "failed" /\ err[c] \in PreconditionErrors) =>
              conflicts[c] = WRITE_RETRY_LIMIT
        /\ conflicts[c] = WRITE_RETRY_LIMIT =>
              /\ pc[c] = "failed"
              /\ err[c] \in PreconditionErrors
              /\ attempt[c] = WRITE_RETRY_LIMIT - 1
              /\ nAccepted[c] = 0

C6_Witness ==
    \E c \in Active : conflicts[c] = WRITE_RETRY_LIMIT /\ pc[c] = "failed"

\* C7: once a request inside readModifyWrite has failed with an error that
\* is no precondition failure, the call has ended with that error and has
\* written nothing, and the step in which it failed left the blobs as
\* they were.
C7_NonConflictNotRetried ==
    /\ [](\A c \in Active :
            firstErr[c] # NoErr =>
                /\ pc[c] \in {"failed", "rollback"}
                /\ err[c] = firstErr[c]
                /\ nAccepted[c] = 0)
    /\ [][\A c \in Active :
            (firstErr[c] = NoErr /\ firstErr'[c] # NoErr) => blobs' = blobs]_vars

C7_Witness ==
    \E c \in Active : firstErr[c] # NoErr /\ conflicts[c] > 0 /\ pc[c] = "failed"

(***************************************************************************)
(* Properties of the upload                                                *)
(***************************************************************************)
IsUpload(c) == c \in Active /\ cfg[c].op = "upload"

\* createdEntries as the staging loop leaves it
StagedEntries(c) == [i \in 1..Len(cfg[c].files) |-> CreatedEntry(c, i)]

\* what call c writes when it runs, from its start, on the collection data
FreshResult(c, data) ==
    IF cfg[c].op = "upload"
    THEN [data EXCEPT !.documents = AppendEntries(@, StagedEntries(c)).documents]
    ELSE IF cfg[c].op = "put" THEN normalizeDocumentsFile(cfg[c].body)
    ELSE Modify(c, data).data

\* C4: a call whose first attempt met a conflict with a writer of another
\* process and whose second attempt was accepted has written what it would
\* have written, had it run without a conflict on the collection its
\* second attempt read.
C4_RetryEquivalence ==
    \A c \in Active :
        (/\ pc[c] = "done" /\ attempt[c] = 1 /\ conflicts[c] = 1
         /\ \A d \in Active \ {c} : ~SameProcess(c, d))
            => final[c] = FreshResult(c, readData[c])

BatchIds(c) == {<<"u", c, i>> : i \in 1..Len(cfg[c].files)}

\* C8: every metadata blob holds none of the records of a batch, or all of
\* them but those a DELETE has removed since.
C8_BatchAllOrNone ==
    \A c \in Calls : IsUpload(c) =>
        \A b \in blobs :
            LET present == Ids(parseDocumentsFile(b.raw).documents) \cap BatchIds(c)
            IN  present = {} \/ (BatchIds(c) \ present) \subseteq deletedIds

C8_Witness ==
    \E c \in Calls : IsUpload(c) /\ Len(cfg[c].files) = 2 /\ pc[c] = "done" /\
        \E b \in blobs : BatchIds(c) \subseteq Ids(parseDocumentsFile(b.raw).documents)

\* the upload has ended in its catch after all files were staged
AppendFailed(c) == IsUpload(c) /\ pc[c] = "failed" /\ idx[c] = Len(cfg[c].files)

NoBatchRecord(c) ==
    \A b \in blobs : Ids(parseDocumentsFile(b.raw).documents) \cap BatchIds(c) = {}

BatchBlobs(c) == {<<"doc", c, i>> : i \in 1..Len(cfg[c].files)}

\* C9 as stated: after a failed append no blob of the batch exists and no
\* collection holds a record of the batch.
C9_RollbackDeletesAll ==
    \A c \in Calls : AppendFailed(c) =>
        /\ BatchBlobs(c) \cap docBlobs = {}
        /\ NoBatchRecord(c)

\* C9 as amended: after a failed append a deletion was tried for every blob
\* of the batch, the blobs that still exist are those whose deletion
\* failed, and no collection holds a record of the batch.
C9_RollbackBestEffort ==
    \A c \in Calls : AppendFailed(c) =>
        /\ pending[c] = {}
        /\ "blobDelete" \in effects[c]
        /\ BatchBlobs(c) \cap docBlobs = delFailed[c]
        /\ NoBatchRecord(c)

C9_Witness ==
    \E c \in Calls : AppendFailed(c) /\ Len(cfg[c].files) = 2 /\ delFailed[c] = {}
                     /\ firstErr[c] # NoErr

\* a file the validation loop answers 400 for
Invalid(f) == f.size > MAX_FILE_SIZE \/ toLowerCase(f.type) \notin ALLOWED_TYPES

\* C10: an upload with an invalid file does nothing but answer: no OCR, no
\* blob, no lock, no request to the metadata blob.
C10_ValidationNoSideEffects ==
    \A c \in Calls :
        (IsUpload(c) /\ \E i \in 1..Len(cfg[c].files) : Invalid(cfg[c].files[i]))
            => /\ pc[c] \in {"idle", "rejected"}
               /\ effects[c] = {}
               /\ entries[c] = <<>>
               /\ BatchBlobs(c) \cap docBlobs = {}
               /\ blobs \in {{}, {Blob0}, {Legacy0}}

C10_Witness ==
    \E c \in Calls :
        /\ IsUpload(c) /\ pc[c] = "rejected" /\ Len(cfg[c].files) = 2
        /\ ~Invalid(cfg[c].files[1]) /\ Invalid(cfg[c].files[2])

\* the non-null filenames of a collection are pairwise distinct
DistinctNames(documents) ==
    \A i \in 1..Len(documents), j \in 1..Len(documents) :
        (i # j /\ documents[i].filename # NoName /\ documents[j].filename # NoName)
            => documents[i].filename # documents[j].filename

IsPrefix(s, t) == Len(s) <= Len(t) /\ SubSeq(t, 1, Len(s)) = s

\* C11: an upload that has committed on a collection with pairwise distinct
\* filenames has written one with pairwise distinct filenames: the records
\* it read, unchanged and in place, followed by one record per file, and a
\* file whose name an earlier record has is stored under another name that
\* no earlier record has.
C11_FilenameUniqueness ==
    \A c \in Calls :
        (IsUpload(c) /\ pc[c] = "done" /\ DistinctNames(readData[c].documents)) =>
            LET old == readData[c].documents
                new == final[c].documents
            IN  /\ DistinctNames(new)
                /\ IsPrefix(old, new)
                /\ Len(new) = Len(old) + Len(cfg[c].files)
                /\ \A i \in 1..Len(cfg[c].files) :
                      LET stored  == new[Len(old) + i].filename
                          earlier == UsedNames(SubSeq(new, 1, Len(old) + i - 1))
                      IN  /\ new[Len(old) + i].id = <<"u", c, i>>
                          /\ stored \notin earlier
                          /\ cfg[c].files[i].name \in earlier => stored # cfg[c].files[i].name

\* an append re-run after a conflict has committed two files of one name
\* on a collection that has that name
C11_Witness ==
    \E c \in Calls :
        /\ IsUpload(c) /\ pc[c] = "done" /\ attempt[c] = 1 /\ conflicts[c] = 1
        /\ Len(cfg[c].files) = 2 /\ cfg[c].files[1].name = cfg[c].files[2].name
        /\ cfg[c].files[1].name \in UsedNames(readData[c].documents)

(***************************************************************************)
(* Properties of the DELETE handler                                        *)
(***************************************************************************)
IsDelete(c) == c \in Active /\ cfg[c].op = "delete"

\* the DELETE handler has started a deletion of blob f
DeletionIssued(c, f) == "blobDelete" \in effects[c] /\ (f \notin docBlobs \/ f \in delFailed[c])

\* C12: a DELETE that has answered after its accepted write removed a
\* record has written a collection without that record; when the record had
\* a file it has issued a deletion of that blob, and when it had none it
\* has issued no blob deletion.
C12_DeleteRecordAndBlob ==
    \A c \in Calls :
        (IsDelete(c) /\ pc[c] = "done") =>
            LET index == findIndex(readData[c].documents, cfg[c].target)
            IN  index # 0 =>
                  LET doc == readData[c].documents[index]
                  IN  /\ cfg[c].target \notin Ids(final[c].documents)
                      /\ doc.hasFile => DeletionIssued(c, doc.fileId)
                      /\ ~doc.hasFile => "blobDelete" \notin effects[c]

\* one DELETE of the record with a file and one of the record without
\* have both answered
C12_Witness ==
    \E c \in Calls, d \in Calls :
        /\ IsDelete(c) /\ pc[c] = "done" /\ cfg[c].target = Doc0.id /\ removed[c] = Doc0
        /\ IsDelete(d) /\ pc[d] = "done" /\ cfg[d].target = DocM.id /\ removed[d] = DocM

(***************************************************************************)
(* Properties of the PATCH handler                                         *)
(***************************************************************************)
IsPatch(c) == c \in Active /\ cfg[c].op = "patch"

\* C13: a PATCH whose body has reimbursed = false and whose write was
\* accepted has written the record with reimbursed = false and
\* reimbursedDate = null.
C13_UnreimbursedHasNoDate ==
    \A c \in Calls :
        (IsPatch(c) /\ pc[c] = "done" /\ cfg[c].patch.reimbursed = "false") =>
            LET index == findIndex(readData[c].documents, cfg[c].target)
            IN  index # 0 =>
                  /\ final[c].documents[index].reimbursed = FALSE
                  /\ final[c].documents[index].reimbursedDate = NoDate

(***************************************************************************)
(* Properties of the token renewal                                         *)
(***************************************************************************)
\* the renewal request s started is on its way to the identity provider
InFlight(s) == promise[s].state \in {"fetch", "json"}

SameAccount(s, t) == authCfg[s].token.sub = authCfg[t].token.sub

SameServer(s, t) == authCfg[s].proc = authCfg[t].proc

\* request t calls ensureFresh with a token that is not fresh
CallsExpiring(t) == apc[t] = "idle" /\ apc'[t] = "await"

\* C14 as stated: at most one renewal call per identity is in flight at any
\* time, whichever server process the callers run in.
C14_SingleFlight ==
    \A s, t \in Sessions :
        (s # t /\ InFlight(s) /\ InFlight(t)) => ~SameAccount(s, t)

\* C14, single-flight token renewal within one process: at most one renewal
\* call per identity is in flight in a process; an ensureFresh call with an
\* expiring token made while a renewal of its identity is in flight in
\* its process starts no renewal and awaits that one, and what it returns
\* is the result of the renewal it awaited.
C14_SingleFlightPerProcess ==
    /\ [](\A s, t \in Sessions :
            (s # t /\ InFlight(s) /\ InFlight(t) /\ SameServer(s, t)) => ~SameAccount(s, t))
    /\ [](\A t \in Sessions :
            (apc[t] = "returned" /\ awaited[t] # 0) => result[t] = promise[awaited[t]].value)
    /\ [][\A s, t \in Sessions :
            (s # t /\ InFlight(s) /\ SameServer(s, t) /\ SameAccount(s, t) /\ CallsExpiring(t)) =>
                /\ promise'[t] = NoPromise
                /\ awaited'[t] = s]_vars

\* a second request of the account has returned the access token that the
\* renewal started by the first one obtained
C14_Witness ==
    \E s, t \in Sessions :
        /\ s # t /\ SameServer(s, t) /\ SameAccount(s, t)
        /\ awaited[t] = s /\ apc[t] = "returned"
        /\ result[t].accessToken = <<"access", authCfg[t].token.sub, 2>>

\* C15, a failed renewal is a value: ensureFresh never throws, and a caller
\* whose renewal did not produce a new access token returns a token that
\* carries an error tag.
C15_FailureIsValue ==
    \A s \in Sessions :
        /\ apc[s] # "thrown"
        /\ (apc[s] = "returned" /\ awaited[s] # 0 /\ ~promise[awaited[s]].ok) =>
                result[s].error # NoError

(***************************************************************************)
(* Properties of the create-if-absent step                                 *)
(***************************************************************************)
\* C16, one metadata blob per identity: once the racing calls have ended,
\* the identity has at most one blob named documents.json, so that every
\* later read resolves to the same blob, and the record of every manual
\* create that returned successfully (no call removing records having run,
\* and no write having been sent without a precondition) is in the
\* collection a later read returns.
C16_OneMetadataBlob ==
    (\A c \in Active : Ended(c)) =>
        \A c \in Active :
            /\ Cardinality(ListByName(Owner(c), DOCUMENTS_METADATA_NAME)) <= 1
            /\ ((\A d \in Active : cfg[d].op = "create" /\ ~blind[d]) /\ pc[c] = "done") =>
                  \A b \in ListByName(Owner(c), DOCUMENTS_METADATA_NAME) :
                      ManualEntry(c).id \in Ids(parseDocumentsFile(b.raw).documents)

(***************************************************************************)
(* Properties of the order in the lane                                     *)
(***************************************************************************)
\* call c was issued before call d: Start takes the requests of the store
\* in the order of their numbers
IssuedBefore(c, d) == c < d /\ cfg[c].op # "upload" /\ cfg[d].op # "upload"

\* the lock holds the call back: the promise it awaits is not resolved
HeldBack(c) == pc[c] = "await" /\ prev[c] # 0 /\ ~released[prev[c]]

\* the call has not yet left the lock
NotThrough(c) == pc[c] \in {"idle", "await"} \/ InLane(c)

\* C17, lane order is issuance order: of two mutations of one process for
\* one identity, the one issued later does not enter the lane while the
\* earlier one is still held back by the lock, and its write is not
\* accepted before the earlier one has left the lane.
C17_LaneOrderIsIssuanceOrder ==
    \A c \in Active, d \in Active :
        (IssuedBefore(c, d) /\ SameProcess(c, d) /\ SameUser(c, d)) =>
            /\ InLane(d) => ~HeldBack(c)
            /\ nAccepted[d] >= 1 => ~NotThrough(c)

\* C18, lanes of different identities are independent: a call never awaits
\* the promise of a call of another identity, and whatever a call of
\* another identity in the same process is doing, a call that has been
\* issued and has not returned can take its next step.
C18_LanesIndependent ==
    \A d \in Active :
        /\ prev[d] # 0 => SameUser(prev[d], d)
        /\ ((pc[d] = "await" \/ InLane(d))
              /\ \A c \in Active \ {d} : SameProcess(c, d) /\ ~SameUser(c, d)) =>
                ENABLED StoreStep(d)

\* the write of B's call is accepted while A's call, issued before it in
\* the same process, is between its first read and its write
C18_Witness ==
    \E c \in Active, d \in Active :
        /\ SameProcess(c, d) /\ ~SameUser(c, d) /\ c < d
        /\ InLane(c) /\ effects[c] # {}
        /\ nAccepted[d] = 1

\* C19, the lane is per identity: two calls of one process for one identity
\* that carry different access tokens of that identity (tA1 from before a
\* renewal, tA2 from after it) are never both between the first read and
\* the end of their body.
C19_LanePerIdentity ==
    \A c \in Active, d \in Active :
        (SameProcess(c, d) /\ SameUser(c, d) /\ cfg[c].token # cfg[d].token) =>
            ~(InLane(c) /\ InLane(d))

(***************************************************************************)
(* Properties of the ways the blob is changed                              *)
(***************************************************************************)
\* the ids of the records call c itself makes
OwnIds(c) ==
    IF cfg[c].op = "create" THEN {ManualEntry(c).id}
    ELSE IF cfg[c].op = "upload" THEN Ids(entries[c])
    ELSE {}

\* C20, every change of the metadata blob is a mutator applied to the
\* collection read inside the lane: the collection a call writes holds no
\* record that was neither in the collection the call read in that attempt
\* nor made by the call itself.
C20_WritesComeFromFreshRead ==
    \A c \in Active :
        (pc[c] = "update" \/ nAccepted[c] >= 1) =>
            Ids(final[c].documents) \subseteq Ids(readData[c].documents) \cup OwnIds(c)

(***************************************************************************)
(* Invariants of the data model                                            *)
(***************************************************************************)
\* the records of every metadata blob in the file store
StoredRecords ==
    UNION {LET documents == parseDocumentsFile(b.raw).documents
           IN  {documents[i] : i \in 1..Len(documents)} : b \in blobs}

\* C21, reimbursedDate implies reimbursed: every record in the store with
\* reimbursed = false has reimbursedDate = null.
C21_DateImpliesReimbursed ==
    \A doc \in StoredRecords : ~doc.reimbursed => doc.reimbursedDate = NoDate

\* C22, the file triple: every record in the store has hasFile = true
\* exactly when its fileId is not null, and exactly when its filename is
\* not null.
C22_FileTriple ==
    \A doc \in StoredRecords :
        /\ doc.hasFile <=> doc.fileId # NoFile
        /\ doc.hasFile <=> doc.filename # NoName

(***************************************************************************)
(* Properties of read                                                      *)
(***************************************************************************)
IsRead(c) == cfg[c].op = "read"

\* the blob the read resolved is as it was when its content was fetched
Unchanged(c) ==
    /\ basis[c] # <<>>
    /\ \E b \in blobs : b.id = basis[c][1] /\ b.ver = basis[c][2]

\* C23, read never fails on content: a read ends in an error only when a
\* remote call failed; it returns the documents of the blob it resolved,
\* the empty collection (version 1, no documents) when that content is no
\* JSON or holds no array of records, and the empty collection when it
\* created the blob itself because none existed under either name (and no
\* other call has written to the new blob before the read fetched it).
C23_ReadNeverFailsOnContent ==
    \A c \in Active :
        IsRead(c) =>
            /\ pc[c] = "failed" => err[c] \in OtherErrors
            /\ (pc[c] = "done" /\ Unchanged(c)) =>
                  LET raw == BlobById(fileId[c]).raw
                  IN  /\ raw.fmt \in {"documents", "receipts"} => readData[c].documents = raw.list
                      /\ raw.fmt \notin {"documents", "receipts"} => readData[c] = EmptyFile
                      /\ readData[c].version >= 1
                      /\ (fileId[c] = <<"meta", c>> /\ basis[c][2] = 1) => readData[c] = EmptyFile

\* a read has returned the empty collection for a blob whose content is no
\* JSON, while another call has ended without having changed that blob
C23_Witness ==
    \E c \in Active :
        /\ IsRead(c) /\ pc[c] = "done" /\ Unchanged(c)
        /\ BlobById(fileId[c]).raw.fmt = "unparsable"
        /\ readData[c] = EmptyFile
        /\ \E d \in Active \ {c} : Ended(d)

(***************************************************************************)
(* Properties of the adoption of a legacy blob                             *)
(***************************************************************************)
\* the blob the store held before any call, under either name
Adopted == {b \in blobs : b.id = Legacy0.id}

\* C24, legacy adoption is one-time and in place: the blob that was found
\* under the legacy name is the blob every resolution ends with (no blob
\* is created next to it), a read returns the records it holds, and once
\* it bears the current name a resolution finds it by the first lookup and
\* does not look for the legacy name.
C24_LegacyAdoptedInPlace ==
    /\ [](Adopted # {} =>
            /\ blobs = Adopted
            /\ \A c \in Active :
                  /\ fileId[c] # NoFile => fileId[c] = Legacy0.id
                  /\ (IsRead(c) /\ pc[c] = "done" /\ Unchanged(c)) =>
                        readData[c].documents = BlobById(fileId[c]).raw.list)
    /\ [][\A c \in Active :
            (/\ \E b \in Adopted : b.name = DOCUMENTS_METADATA_NAME
             /\ pc[c] = "list")
            => pc'[c] # "legacy"]_vars

(***************************************************************************)
(* Properties of authorization failures                                    *)
(***************************************************************************)
\* what the file store answers to a request whose credential it refuses
AuthorizationFailures == {Err401, Err403}

\* C25, authorization failures are a kind of their own: the remote call of
\* a read, a metadata write or a blob upload that is refused with 401 or 403
\* ends the request (no further attempt; an upload only deletes the blobs
\* it staged), the caller is told InvalidCredentials, and a request that
\* failed for any other remote error is never told InvalidCredentials.
C25_AuthFailureIsDistinct ==
    /\ [](\A c \in Active :
            pc[c] = "failed" =>
                (ErrorKind(err[c]) = "InvalidCredentials" <=> err[c] \in AuthorizationFailures))
    /\ [][\A c \in Active :
            /\ (err'[c] # err[c] /\ err'[c] \in AuthorizationFailures) =>
                  /\ pc'[c] \in {"failed", "rollback"}
                  /\ attempt'[c] = attempt[c]
            /\ (err[c] \in AuthorizationFailures /\ pc[c] \in {"failed", "rollback"}) =>
                  /\ pc'[c] \in {"failed", "rollback"}
                  /\ err'[c] = err[c]
                  /\ blobs' = blobs \/ pc'[c] = pc[c]]_vars

\* a metadata write was refused with 403 on the attempt after a conflict,
\* and the caller is told InvalidCredentials
C25_Witness ==
    \E c \in Active :
        /\ pc[c] = "failed" /\ err[c] = Err403 /\ conflicts[c] > 0
        /\ ErrorKind(err[c]) = "InvalidCredentials"

Leaders(text) ==
    {k \in 1..Len(CATEGORY_KEYWORDS) :
        /\ Score(text, k) > 0
        /\ \A j \in 1..Len(CATEGORY_KEYWORDS) : Score(text, j) <= Score(text, k)}

\* C27, category selection: the extractor returns the category that has
\* strictly the most keyword hits, and the empty category when two or more
\* categories tie for the most hits or no category has a hit.
C27_CategoryStrictlyMost ==
    ocr.pc = "return" =>
        ocr.fields.category =
            IF Cardinality(Leaders(ocr.text)) = 1
            THEN CATEGORY_KEYWORDS[CHOOSE k \in Leaders(ocr.text) : TRUE].category
            ELSE ""

\* the priority a candidate has when every keyword occurrence within the
\* window before it counts
BoostedPriority(text, i) ==
    DateMatch(text[i]).priority +
    SumPriorities({<<q, dateKeywords[q[1]].priority>> :
                      q \in {q \in (1..Len(dateKeywords)) \X (1..Len(text)) :
                               /\ dateKeywords[q[1]].keyword \in Holds(text[q[2]])
                               /\ LineStart(text, i) > LineStart(text, q[2])
                               /\ LineStart(text, i) < LineStart(text, q[2]) + DATE_WINDOW}})

\* C28, date selection: every candidate with a date keyword within the
\* window before it has its priority raised by that keyword, also when
\* several candidates lie in the window of one keyword; the extractor
\* returns the date of the candidate of highest priority, the earliest in
\* the text among equals, and the empty date when there is no candidate.
C28_DateSelection ==
    ocr.pc = "return" =>
        LET text == ocr.text
            at   == {i \in 1..Len(text) : DateMatch(text[i]).pattern # 0}
        IN  IF at = {} THEN ocr.fields.date = ""
            ELSE \E i \in at :
                    /\ ocr.fields.date = DateMatch(text[i]).date
                    /\ \A j \in at :
                          \/ BoostedPriority(text, i) > BoostedPriority(text, j)
                          \/ /\ BoostedPriority(text, i) = BoostedPriority(text, j)
                             /\ i <= j

(***************************************************************************)
(* Properties of the registry of renewals                                  *)
(***************************************************************************)
\* the renewal of request s has not settled yet
Pending(s) == promise[s].state \in {"fetch", "json", "settling"}

\* C29, the entry of a renewal is removed whatever the outcome: the
\* registry holds an entry only while the renewal it names is in flight (a
\* renewal that has settled, with a token, with a tagged failure or by an
\* exception, is no longer registered), and an ensureFresh call with an
\* expiring token that finds no renewal in flight under its key starts a
\* new one; it never awaits a settled renewal.
C29_EntryRemovedOnSettle ==
    /\ [](\A p \in Procs, k \in GuardKeys :
            Registered(p, k) # 0 => Pending(Registered(p, k)))
    /\ [][\A t \in Sessions :
            CallsExpiring(t) =>
                /\ promise'[awaited'[t]].state # "settled"
                /\ (\A s \in Sessions \ {t} :
                       (SameServer(s, t) /\ refreshKey(authCfg[s].token) = refreshKey(authCfg[t].token))
                       => ~Pending(s))
                   => awaited'[t] = t]_vars

\* a renewal ended in an exception, and a later call of the same process
\* under the same key has a renewal of its own in flight
C29_Witness ==
    \E s, t \in Sessions :
        /\ s # t /\ SameServer(s, t)
        /\ refreshKey(authCfg[s].token) = refreshKey(authCfg[t].token)
        /\ promise[s].state = "settled" /\ promise[s].rejected
        /\ awaited[t] = t /\ promise[t].state = "fetch"
        /\ Registered(authCfg[t].proc, refreshKey(authCfg[t].token)) = t

(***************************************************************************)
(* Properties of staging                                                   *)
(***************************************************************************)
Staging(c) == IsUpload(c) /\ pc[c] \in {"ocr", "blob"}

\* C30, staging happens outside the lane: while an upload extracts fields,
\* uploads blobs and builds records it holds no lane and no call waits for
\* it, so another request of the same identity can start; when it asks
\* for the lane every file of the batch has been staged, and in the lane
\* it makes the one append.
C30_StagingOutsideLane ==
    \A c \in Active :
        IsUpload(c) =>
            /\ Staging(c) =>
                  /\ "lock" \notin effects[c]
                  /\ \A p \in Procs, k \in LockKeys : writeLocks[p][k] # c
                  /\ \A d \in Active : prev[d] # c
                  /\ \A d \in Active \ {c} : pc[d] = "idle" => ENABLED Start(d)
            /\ (pc[c] = "await" \/ InLane(c)) =>
                  /\ idx[c] = Len(cfg[c].files)
                  /\ Len(entries[c]) = Len(cfg[c].files)
                  /\ BatchBlobs(c) \subseteq docBlobs
                  /\ {"ocr", "blobCreate"} \subseteq effects[c]
            /\ nAccepted[c] <= 1

\* a manual create of the uploader's own lane has been committed while
\* the batch has staged its first file and not yet its second
C30_Witness ==
    \E c, d \in Active :
        /\ Staging(c) /\ idx[c] = 1 /\ Len(cfg[c].files) = 2
        /\ d # c /\ cfg[d].op = "create"
        /\ cfg[d].proc = cfg[c].proc /\ LockKey(cfg[d].token) = LockKey(cfg[c].token)
        /\ pc[d] = "done" /\ nAccepted[d] = 1

(***************************************************************************)
(* Properties of a failed recognition                                      *)
(***************************************************************************)
\* the record of file i of upload c, as a collection of the store has it
Committed(c, i) ==
    {doc \in StoredRecords : doc.id = <<"u", c, i>>}

\* C31, extraction failure is non-fatal: when runOcr throws for a file the
\* batch goes on (it fails only for a remote error), the blob of the file
\* is uploaded, and the record committed for it has the file's name
\* without the extension as title, today's date, amount 0, the empty
\* category and no confidence; the record of every other file has the
\* fields runOcr returned for that file.
C31_OcrFailureNonFatal ==
    \A c \in Active :
        IsUpload(c) =>
            /\ pc[c] = "failed" => err[c] \in OtherErrors
            /\ pc[c] = "done" =>
                  \A i \in 1..Len(cfg[c].files) :
                      /\ <<"doc", c, i>> \in docBlobs
                      /\ \E doc \in Committed(c, i) :
                            LET o == ocrResult[c][i]
                                name == cfg[c].files[i].name
                                stem == IF name = <<".", "j">> THEN Untitled
                                        ELSE SubSeq(name, 1, Len(name) - 2)
                            IN  IF o.threw \/ o = Unreadable
                                THEN /\ doc.title = stem
                                     /\ doc.date = Today
                                     /\ doc.amount = 0
                                     /\ doc.category = ""
                                     /\ doc.ocrConfidence = NullConfidence
                                ELSE /\ doc.title = o.value.title
                                     /\ doc.date = o.value.date
                                     /\ doc.amount = o.value.amount
                                     /\ doc.category = o.value.category
                                     /\ doc.ocrConfidence = o.value.confidence

\* a batch of two files is committed; runOcr threw for the first and
\* returned fields for the second
C31_Witness ==
    \E c \in Active :
        /\ IsUpload(c) /\ pc[c] = "done" /\ Len(cfg[c].files) = 2
        /\ ocrResult[c][1] = Threw /\ ocrResult[c][2] = Extracted
        /\ Committed(c, 1) # {} /\ Committed(c, 2) # {}

(***************************************************************************)
(* Properties of the rollback                                              *)
(***************************************************************************)
\* the blobs upload c has created so far
CreatedBlobs(c) == {entries[c][i].fileId : i \in 1..Len(entries[c])}

\* C32, the rollback is best-effort and does not mask the cause: the
\* rollback starts one deletion for every blob the batch created; each
\* step of it settles exactly one of them, once; a deletion that fails
\* leaves the others to be attempted; the handler answers only when all
\* have settled, and with the error that started the rollback.
C32_RollbackKeepsCause ==
    /\ [][\A c \in Calls :
            /\ (pc[c] # "rollback" /\ pc'[c] = "rollback") =>
                    /\ pending'[c] = CreatedBlobs(c)
                    /\ pending'[c] # {}
                    /\ err'[c] # NoErr
            /\ (pc[c] = "rollback" /\ <<pc[c], pending[c], delFailed[c]>>
                                          # <<pc'[c], pending'[c], delFailed'[c]>>) =>
                    /\ pending'[c] \subseteq pending[c]
                    /\ Cardinality(pending[c] \ pending'[c]) = 1
                    /\ ((docBlobs \ docBlobs') \cap CreatedBlobs(c))
                            \cup (delFailed'[c] \ delFailed[c]) = pending[c] \ pending'[c]
                    /\ err'[c] = err[c]
                    /\ pc'[c] = IF pending'[c] = {} THEN "failed" ELSE "rollback"]_vars
    /\ [](\A c \in Calls :
            (IsUpload(c) /\ pc[c] = "failed" /\ entries[c] # <<>>) =>
                /\ pending[c] = {}
                /\ delFailed[c] \subseteq CreatedBlobs(c)
                /\ CreatedBlobs(c) \cap docBlobs = delFailed[c]
                /\ err[c] # NoErr)

\* a deletion of the rollback has failed and the rollback goes on with the
\* blobs that are left
C32_Witness ==
    \E c \in Calls :
        /\ IsUpload(c) /\ pc[c] = "rollback"
        /\ delFailed[c] # {} /\ pending[c] # {}
        /\ ENABLED RollbackDelete(c)

(***************************************************************************)
(* The frame of PATCH                                                      *)
(***************************************************************************)
\* DocumentUpdates, lines 15-27: the keys a PATCH may change
Editable == {"user", "title", "category", "date", "amount", "notes", "reimbursed",
             "reimbursedDate"}

\* C33, the frame of PATCH: whatever the body holds, the collection a PATCH
\* has written differs from the collection its mutator was given only in
\* the editable fields of the record it names: the record keeps its place,
\* its id, fileId, filename, hasFile and every other field that is not
\* editable, and every other record is as it was.
C33_PatchFrame ==
    \A c \in Calls :
        (IsPatch(c) /\ pc[c] = "done") =>
            LET before == readData[c].documents
                after  == final[c].documents
                index  == findIndex(before, cfg[c].target)
            IN  /\ Len(after) = Len(before)
                /\ \A j \in 1..Len(before) :
                      IF j = index
                      THEN /\ DOMAIN after[j] \ Editable = DOMAIN before[j] \ Editable
                           /\ \A k \in DOMAIN before[j] \ Editable : after[j][k] = before[j][k]
                      ELSE after[j] = before[j]

\* a PATCH whose body names a title, an id, a fileId and hasFile has
\* changed the title of the first of two records
C33_Witness ==
    \E c \in Calls :
        /\ IsPatch(c) /\ pc[c] = "done"
        /\ cfg[c].patch.id # Absent /\ cfg[c].patch.fileId # Absent
        /\ cfg[c].patch.hasFile # "undefined"
        /\ Len(readData[c].documents) = 2
        /\ findIndex(readData[c].documents, cfg[c].target) = 1
        /\ cfg[c].patch.title = <<"string", <<" ", "N">>>>
        /\ "title" \in DOMAIN final[c].documents[1]
        /\ final[c].documents[1].title = <<"N">>
        /\ final[c].documents[1].id = Doc0.id

(***************************************************************************)
(* File references                                                         *)
(***************************************************************************)
\* C34, no dangling file reference: every record of the store with
\* hasFile = true names a blob that exists.
C34_NoDanglingReference ==
    \A doc \in StoredRecords : doc.hasFile => doc.fileId \in docBlobs

(***************************************************************************)
(* The lane is released                                                    *)
(***************************************************************************)
\* call c has left fn(), by a return or by a throw
LeftLane(c) == pc[c] \in {"done", "failed", "unlink", "rollback"}

C36_TokenNotNewerThanContent ==
    [][\A c \in Calls :
          nAccepted'[c] > nAccepted[c] =>
              basis[c] = <<fileId[c], BlobById(fileId[c]).ver>>]_vars

(***************************************************************************)
(* The answer of PATCH                                                     *)
(***************************************************************************)
\* documents/[id]/route.ts lines 104-108: 404 when `updated` is still null,
\* else the record in `updated`
PatchAnswer(c) ==
    IF updated[c] = NoDoc THEN [status |-> 404, body |-> NoDoc]
    ELSE [status |-> 200, body |-> updated[c]]

\* C37, PATCH answers from the committed attempt only: a PATCH that answers
\* with a record has written, in its accepted attempt, a collection that
\* holds this record; a PATCH whose accepted attempt read a collection
\* without the record answers not-found.
C37_PatchAnswersCommitted ==
    \A c \in Calls :
        (IsPatch(c) /\ pc[c] = "done") =>
            IF findIndex(readData[c].documents, cfg[c].target) = 0
            THEN PatchAnswer(c).status = 404
            ELSE /\ PatchAnswer(c).status = 200
                 /\ \E i \in 1..Len(final[c].documents) :
                       final[c].documents[i] = PatchAnswer(c).body

(***************************************************************************)
(* A failure while staging                                                 *)
(***************************************************************************)
\* the upload of a blob of batch c has failed
StagingFailed(c) ==
    /\ IsUpload(c) /\ pc[c] \in {"rollback", "failed"}
    /\ idx[c] < Len(cfg[c].files)

\* C38, a staging failure rolls back the earlier files: when the upload of
\* the blob of file k fails, a deletion is started for the blob of every
\* file before k and, once the handler has answered, each of them is
\* deleted or its deletion has failed; the call never takes the lock,
\* reads or writes the metadata blob, and no collection holds a record of
\* the batch.
C38_StagingFailureRollsBack ==
    \A c \in Calls :
        StagingFailed(c) =>
            LET earlier == {<<"doc", c, i>> : i \in 1..idx[c]}
            IN  /\ err[c] # NoErr
                /\ pending[c] \subseteq earlier
                /\ delFailed[c] \subseteq earlier
                /\ earlier \cap docBlobs = pending[c] \cup delFailed[c]
                /\ pc[c] = "failed" => pending[c] = {}
                /\ (pc[c] = "failed" /\ earlier # {}) => "blobDelete" \in effects[c]
                /\ effects[c] \cap {"lock", "metaRead", "metaWrite"} = {}
                /\ NoBatchRecord(c)

\* the upload of the second blob of a batch has failed, the handler has
\* answered and the first blob is deleted
C38_Witness ==
    \E c \in Calls :
        /\ StagingFailed(c) /\ pc[c] = "failed"
        /\ Len(cfg[c].files) = 2 /\ idx[c] = 1
        /\ <<"doc", c, 1>> \notin docBlobs /\ delFailed[c] = {}

(***************************************************************************)
(* Renewals and identities                                                 *)
(***************************************************************************)
\* C39, renewal results are not shared across identities: a request awaits
\* only a renewal that was started with a token of its own account, and the
\* token it returns is a token of that account.
C39_RenewalNotSharedAcrossIdentities ==
    \A t \in Sessions :
        /\ awaited[t] # 0 => SameAccount(awaited[t], t)
        /\ apc[t] = "returned" =>
              /\ result[t].sub = authCfg[t].token.sub
              /\ result[t].accessToken[2] = authCfg[t].token.sub
====
